---------------------------- MODULE Spec2Model ----------------------------
(***************************************************************************)
(* A model of the LogBroadcaster of src/server.js (lines 360-836): the     *)
(* shared tail process, the bounded log store, the per-viewer text search  *)
(* and the buffered broadcast.                                             *)
(*                                                                         *)
(* A JavaScript string is a sequence of one-character strings, so that     *)
(* trim, split, join, toLowerCase, includes and the regular expressions of *)
(* obfuscateIPAddresses are computed character by character.               *)
(***************************************************************************)
EXTENDS Integers, Sequences, FiniteSets, TLC

(***************************************************************************)
(* Strings                                                                 *)
(***************************************************************************)
NL == "\n"

Digits == {"0", "1", "2", "3", "4", "5", "6", "7", "8", "9"}

HexLower == {"a", "b", "c", "d", "e", "f"}

HexUpper == {"A", "B", "C", "D", "E", "F"}

HexDigits == Digits \cup HexLower \cup HexUpper

\* the letters of the model's alphabet that are not hexadecimal digits
OtherLower == {"g", "k", "o", "r", "t", "x"}

OtherUpper == {"G", "K", "O", "R", "T", "X"}

\* \w of a JavaScript regular expression, on the model's alphabet
WordChars == HexDigits \cup OtherLower \cup OtherUpper \cup {"_"}

\* the white space String.prototype.trim removes
WhiteSpace == {" ", NL, "\t", "\r"}

LowerOf ==
  [c \in HexUpper \cup OtherUpper |->
     CASE c = "A" -> "a" [] c = "B" -> "b" [] c = "C" -> "c" [] c = "D" -> "d"
       [] c = "E" -> "e" [] c = "F" -> "f" [] c = "G" -> "g" [] c = "K" -> "k"
       [] c = "O" -> "o" [] c = "R" -> "r" [] c = "T" -> "t" [] c = "X" -> "x"]

\* String.prototype.toLowerCase
ToLowerCase(s) ==
  [i \in 1..Len(s) |-> IF s[i] \in DOMAIN LowerOf THEN LowerOf[s[i]] ELSE s[i]]

\* s has sub at position i
HasAt(s, sub, i) ==
  /\ i + Len(sub) - 1 <= Len(s)
  /\ \A k \in 1..Len(sub) : s[i + k - 1] = sub[k]

\* String.prototype.includes
Includes(s, sub) == \E i \in 1..(Len(s) + 1) : HasAt(s, sub, i)

\* String.prototype.trim
Trim(s) ==
  LET keep == {i \in 1..Len(s) : s[i] \notin WhiteSpace}
  IN  IF keep = {} THEN <<>>
      ELSE LET lo == CHOOSE i \in keep : \A j \in keep : i <= j
               hi == CHOOSE i \in keep : \A j \in keep : j <= i
           IN  SubSeq(s, lo, hi)

RECURSIVE SplitFrom(_, _, _, _)
\* the pieces of s from position i on, cur being the piece under construction
SplitFrom(s, sep, i, cur) ==
  IF i > Len(s) THEN <<cur>>
  ELSE IF HasAt(s, sep, i)
       THEN <<cur>> \o SplitFrom(s, sep, i + Len(sep), <<>>)
       ELSE SplitFrom(s, sep, i + 1, Append(cur, s[i]))

\* String.prototype.split with a non-empty separator
Split(s, sep) == SplitFrom(s, sep, 1, <<>>)

RECURSIVE Join(_, _)
\* Array.prototype.join
Join(arr, sep) ==
  IF arr = <<>> THEN <<>>
  ELSE IF Len(arr) = 1 THEN arr[1]
       ELSE arr[1] \o sep \o Join(Tail(arr), sep)

\* Array.prototype.slice(-n), n > 0
SliceLast(arr, n) ==
  IF Len(arr) <= n THEN arr ELSE SubSeq(arr, Len(arr) - n + 1, Len(arr))

(***************************************************************************)
(* Regular expressions: a backtracking matcher with the priorities of the  *)
(* JavaScript engine (first alternative first, greedy repetition).         *)
(***************************************************************************)
RSet(S) == [t |-> "set", s |-> S]

RCat(rs) == [t |-> "cat", rs |-> rs]

RAlt(rs) == [t |-> "alt", rs |-> rs]

RRep(r, lo, hi) == [t |-> "rep", r |-> r, lo |-> lo, hi |-> hi]

\* \b
RWb == [t |-> "wb"]

IsWordAt(s, i) == i >= 1 /\ i <= Len(s) /\ s[i] \in WordChars

RECURSIVE Ends(_, _, _), EndsCat(_, _, _), EndsAlt(_, _, _), EndsRep(_, _, _, _, _),
          EndsRepFrom(_, _, _, _, _)
\* the positions where a match of r that starts at i can end, in the order the
\* backtracking engine tries them
Ends(r, s, i) ==
  CASE r.t = "set" -> IF i <= Len(s) /\ s[i] \in r.s THEN <<i + 1>> ELSE <<>>
    [] r.t = "wb"  -> IF IsWordAt(s, i - 1) # IsWordAt(s, i) THEN <<i>> ELSE <<>>
    [] r.t = "cat" -> EndsCat(r.rs, s, <<i>>)
    [] r.t = "alt" -> EndsAlt(r.rs, s, i)
    [] r.t = "rep" -> EndsRep(r.r, r.lo, r.hi, s, i)

EndsCat(rs, s, starts) ==
  IF rs = <<>> \/ starts = <<>> THEN starts
  ELSE EndsCat(Tail(rs), s, Ends(Head(rs), s, Head(starts)))
         \o EndsCat(rs, s, Tail(starts))

EndsAlt(rs, s, i) ==
  IF rs = <<>> THEN <<>> ELSE Ends(Head(rs), s, i) \o EndsAlt(Tail(rs), s, i)

EndsRep(r, lo, hi, s, i) ==
  (IF hi = 0 THEN <<>> ELSE EndsRepFrom(r, lo, hi, s, Ends(r, s, i)))
    \o (IF lo = 0 THEN <<i>> ELSE <<>>)

EndsRepFrom(r, lo, hi, s, starts) ==
  IF starts = <<>> THEN <<>>
  ELSE EndsRep(r, IF lo = 0 THEN 0 ELSE lo - 1, hi - 1, s, Head(starts))
         \o EndsRepFrom(r, lo, hi, s, Tail(starts))

RECURSIVE Pieces(_, _, _)
\* s from position i on, cut into the matches of /r/g and the characters between
Pieces(s, r, i) ==
  IF i > Len(s) THEN <<>>
  ELSE LET e == Ends(r, s, i)
       IN  IF e # <<>> /\ Head(e) > i
           THEN <<[match |-> TRUE, text |-> SubSeq(s, i, Head(e) - 1)]>>
                  \o Pieces(s, r, Head(e))
           ELSE <<[match |-> FALSE, text |-> <<s[i]>>]>> \o Pieces(s, r, i + 1)

RECURSIVE Concat(_)
Concat(arr) == IF arr = <<>> THEN <<>> ELSE Head(arr) \o Concat(Tail(arr))

\* String.prototype.replace(/r/g, Fn)
ReplaceAll(s, r, Fn(_)) ==
  LET p == Pieces(s, r, 1)
  IN  Concat([k \in 1..Len(p) |-> IF p[k].match THEN Fn(p[k].text) ELSE p[k].text])

(***************************************************************************)
(* obfuscateIPAddresses (src/server.js 312-342)                            *)
(***************************************************************************)
RChar(c) == RSet({c})

\* (?:25[0-5]|2[0-4][0-9]|[01]?[0-9][0-9]?)
Octet ==
  RAlt(<<RCat(<<RChar("2"), RChar("5"), RSet({"0", "1", "2", "3", "4", "5"})>>),
         RCat(<<RChar("2"), RSet({"0", "1", "2", "3", "4"}), RSet(Digits)>>),
         RCat(<<RRep(RSet({"0", "1"}), 0, 1), RSet(Digits), RRep(RSet(Digits), 0, 1)>>)>>)

ipv4Pattern ==
  RCat(<<RWb, RRep(RCat(<<Octet, RChar(".")>>), 3, 3), Octet, RWb>>)

\* [0-9a-fA-F]{1,4}
Hextet == RRep(RSet(HexDigits), 1, 4)

\* (?:[0-9a-fA-F]{1,4}:){lo,hi}
HexColon(lo, hi) == RRep(RCat(<<Hextet, RChar(":")>>), lo, hi)

\* (?::[0-9a-fA-F]{1,4}){lo,hi}
ColonHex(lo, hi) == RRep(RCat(<<RChar(":"), Hextet>>), lo, hi)

ipv6Pattern ==
  RAlt(<<RCat(<<RWb, HexColon(7, 7), Hextet, RWb>>),
         RCat(<<RWb, HexColon(1, 7), RChar(":"), RWb>>),
         RCat(<<RWb, HexColon(1, 6), RChar(":"), Hextet, RWb>>),
         RCat(<<RWb, HexColon(1, 5), ColonHex(1, 2), RWb>>),
         RCat(<<RWb, HexColon(1, 4), ColonHex(1, 3), RWb>>),
         RCat(<<RWb, HexColon(1, 3), ColonHex(1, 4), RWb>>),
         RCat(<<RWb, HexColon(1, 2), ColonHex(1, 5), RWb>>),
         RCat(<<RWb, Hextet, RChar(":"), ColonHex(1, 6), RWb>>),
         RCat(<<RWb, RChar(":"), RChar(":"), HexColon(0, 6), Hextet, RWb>>),
         RCat(<<RWb, HexColon(1, 7), RChar(":"), RWb>>)>>)

Mask3 == <<"x", "x", "x">>

Mask4 == <<"x", "x", "x", "x">>

\* the replacement of an IPv4 match: `${parts[0]}.${parts[1]}.xxx.xxx`
MaskIPv4(match) ==
  LET parts == Split(match, <<".">>)
  IN  parts[1] \o <<".">> \o parts[2] \o <<".">> \o Mask3 \o <<".">> \o Mask3

\* ::xxxx:xxxx:xxxx:xxxx
MaskTail == <<":">> \o Join(<<Mask4, Mask4, Mask4, Mask4>>, <<":">>) 

\* the replacement of an IPv6 match
MaskIPv6(match) ==
  IF Includes(match, <<":", ":">>)
  THEN LET firstPart == Split(match, <<":", ":">>)[1]
           segments  == Split(firstPart, <<":">>)
       IN  IF Len(segments) >= 2
           THEN segments[1] \o <<":">> \o segments[2] \o <<":">> \o MaskTail
           ELSE segments[1] \o <<":">> \o Mask4 \o <<":">> \o MaskTail
  ELSE LET parts == Split(match, <<":">>)
       IN  parts[1] \o <<":">> \o parts[2] \o <<":">>
             \o Join(<<Mask4, Mask4, Mask4, Mask4, Mask4, Mask4>>, <<":">>)

obfuscateIPAddresses(logData) ==
  ReplaceAll(ReplaceAll(logData, ipv4Pattern, MaskIPv4), ipv6Pattern, MaskIPv6)

(***************************************************************************)
(* Program constants, scaled down (the source's values are in comments)    *)
(***************************************************************************)
\* this.BUFFER_SIZE = 100
BUFFER_SIZE == 3

\* this.MAX_STORED_LOGS = 5000
MAX_STORED_LOGS == 3

\* this.CLIENT_HISTORY_LIMIT = 1000
CLIENT_HISTORY_LIMIT == 2

\* src/app.js: const MAX_LOGS = 500
MAX_LOGS == 3

\* src/app.js: const BATCH_SIZE = 50
BATCH_SIZE == 2

\* src/app.js 120: pendingMessages.length > 200 selects the larger batch
ADAPTIVE_THRESHOLD == 4

\* src/app.js 120: Math.min(100, pendingMessages.length), the larger batch
ADAPTIVE_BATCH == 3

(***************************************************************************)
(* Bounds of the model                                                     *)
(***************************************************************************)
\* the sockets that connect over the run: each is one connection
NumSockets == 3

\* the calls of startTailProcess that spawn a backfill read
MaxSpawns == 2

\* the lines the backfill reads and the tail processes emit over the run
MaxArrived == 4

\* the messages a page receives over the run
MaxMessages == 3

WS == 1..NumSockets

\* the socket whose deliveries the history variable delivered records
Watched == NumSockets

NULL == 0

(***************************************************************************)
(* What the outside world supplies                                         *)
(***************************************************************************)
\* "E a:b::1": holds an IPv6 address, matches the search "e" only when folded
LineA == <<"E", " ", "a", ":", "b", ":", ":", "1">>

\* "ok 10.1.2.3": holds an IPv4 address, does not match the search "e"
LineB == <<"o", "k", " ", "1", "0", ".", "1", ".", "2", ".", "3">>

\* the chunks a stdout 'data' event can carry
Chunks ==
  { LineA \o <<NL>>,
    LineA \o <<NL, " ", NL>> \o LineB \o <<NL>>,
    <<" ", NL>> }

\* the two reads in which the line "E a:b::1\n" arrives when the pipe is read
\* in the middle of it
Fragments ==
  { <<"E", " ", "a", ":">>,
    <<"b", ":", ":", "1", NL>> }

\* every chunk a 'data' event can carry, those that cut a line included
Reads == Chunks \cup Fragments

\* the value of a setTextSearch message: a string, or (str false) a value
\* that is absent or not a string
StringValue(s) == [str |-> TRUE, s |-> s]

NotAString == [str |-> FALSE, s |-> <<>>]

SearchValues ==
  {StringValue(<<>>), StringValue(<<"e">>), StringValue(<<"E">>),
   StringValue(<<" ", "e", " ">>), StringValue(<<"k">>), NotAString}

\* the messages a viewer can send: text that is not JSON, a JSON object of
\* another type, a setTextSearch message
Messages ==
  {[json |-> FALSE, type |-> "", value |-> NotAString],
   [json |-> TRUE, type |-> "ping", value |-> NotAString]}
    \cup {[json |-> TRUE, type |-> "setTextSearch", value |-> v] : v \in SearchValues}

(***************************************************************************)
(* State                                                                   *)
(***************************************************************************)
VARIABLES
  clients,        \* this.clients: the Map's entries in insertion order
  readyState,     \* ws.readyState of each socket ("NONE": not yet connected)
  tail,           \* this.tail: the pid of a tail process, or NULL
  isStarted,      \* this.isStarted
  messageBuffer,  \* this.messageBuffer
  bufferTimeout,  \* this.bufferTimeout is not null
  storedLogs,     \* this.storedLogs
  timerPending,   \* the setTimeout callback of bufferTimeout is still to run
  initialReads,   \* the backfill reads that are running
  procs,          \* the state of each tail process spawned, by pid
  crashed,        \* an exception escaped an event handler: the process is gone
  totalClientDisconnections,  \* this.stats.totalClientDisconnections
  closing,        \* server.close() was called: no connection is accepted any more
  exited,         \* process.exit(0) was called
  arrived,        \* history: every line ingested, raw and as pushed, in order
  pendingIds,     \* history: the positions in arrived of the lines of messageBuffer
  delivered,      \* history: the positions in arrived of the lines socket Watched
                  \* was sent, by history replays and by flushes
  op,             \* observation: the operation that ran last
  sent,           \* observation: the ws.send calls of that operation, in order
  allLogs,            \* src/app.js: the lines the page shows
  pendingMessages,    \* src/app.js: the lines received and not yet processed
  renderTimeout,      \* src/app.js: renderTimeout is not null
  renderTimers,       \* the processPendingMessages callbacks still to run
  userHasScrolledUp,  \* src/app.js: the log box is not scrolled to its end
  manuallyPaused,     \* src/app.js: the pause button is on
  messagesReceived    \* src/app.js: the messages the page has received

\* the broadcaster's state (src/server.js)
server ==
  <<clients, readyState, tail, isStarted, messageBuffer, bufferTimeout, storedLogs,
    timerPending, initialReads, procs, crashed, totalClientDisconnections, closing,
    exited, arrived, pendingIds, delivered>>

\* the state of the viewer script of one page (src/app.js)
page ==
  <<allLogs, pendingMessages, renderTimeout, renderTimers, userHasScrolledUp,
    manuallyPaused, messagesReceived>>

vars == <<server, op, sent, page>>

\* new LogBroadcaster() (src/server.js 361-388) and the page as its script
\* has loaded (src/app.js 8-17), before any event
Init ==
  /\ clients = <<>>
  /\ readyState = [w \in WS |-> "NONE"]
  /\ tail = NULL
  /\ isStarted = FALSE
  /\ messageBuffer = <<>>
  /\ bufferTimeout = FALSE
  /\ storedLogs = <<>>
  /\ timerPending = FALSE
  /\ initialReads = 0
  /\ procs = <<>>
  /\ crashed = FALSE
  /\ totalClientDisconnections = 0
  /\ closing = FALSE
  /\ exited = FALSE
  /\ arrived = <<>>
  /\ pendingIds = <<>>
  /\ delivered = [history |-> {}, flush |-> {}]
  /\ op = [name |-> "init"]
  /\ sent = <<>>
  /\ allLogs = <<>>
  /\ pendingMessages = <<>>
  /\ renderTimeout = FALSE
  /\ renderTimers = 0
  /\ userHasScrolledUp = FALSE
  /\ manuallyPaused = FALSE
  /\ messagesReceived = 0

\* the process is there to handle an event
Running == ~crashed /\ ~exited

(***************************************************************************)
(* The Map of clients                                                      *)
(***************************************************************************)
\* the position of ws in this.clients, 0 when absent
IndexOf(cs, ws) ==
  IF \E k \in 1..Len(cs) : cs[k].ws = ws
  THEN CHOOSE k \in 1..Len(cs) : cs[k].ws = ws
  ELSE 0

\* this.clients.has(ws)
HasClient(cs, ws) == IndexOf(cs, ws) # 0

\* this.clients.get(ws)
GetClient(cs, ws) == cs[IndexOf(cs, ws)]

\* this.clients.delete(ws)
DeleteClient(cs, ws) == SelectSeq(cs, LAMBDA c : c.ws # ws)

(***************************************************************************)
(* Ingestion helpers                                                       *)
(***************************************************************************)
\* the handlers without the return of lines 432 and 455 and without the
\* filter: an empty read gives one empty line, a blank line is kept
SplitLogDataKeepsBlank(data) == Split(Trim(data), <<NL>>)

\* data.toString().trim(), then, unless empty, split('\n').filter(line => line.trim())
\* (src/server.js 431-434, 454-461)
SplitLogData(data) ==
  LET logData == Trim(data)
  IN  IF logData = <<>> THEN <<>>
      ELSE SelectSeq(Split(logData, <<NL>>), LAMBDA line : Trim(line) # <<>>)

\* SplitLogData of every chunk, computed once
LinesTable == [data \in Reads |-> SplitLogData(data)]

LinesOf(data) == LinesTable[data]

\* the raw lines the chunks hold
RawLines == UNION {{LinesTable[data][k] : k \in 1..Len(LinesTable[data])} : data \in Reads}

\* obfuscateIPAddresses of every raw line, computed once
ObfuscatedTable == [line \in RawLines |-> obfuscateIPAddresses(line)]

\* ObfuscateLines with every line obfuscated a second time
ObfuscateLinesTwice(logLines) ==
  [k \in 1..Len(logLines) |-> obfuscateIPAddresses(ObfuscatedTable[logLines[k]])]

\* logLines.map(line => obfuscateIPAddresses(line)) (src/server.js 435, 462)
ObfuscateLines(logLines) ==
  [k \in 1..Len(logLines) |-> ObfuscatedTable[logLines[k]]]

\* arr.splice(0, excess), for what is left in arr
SpliceHead(arr, excess) == SubSeq(arr, excess + 1, Len(arr))

\* StoreLogs with the splice at the wrong end: splice(MAX_STORED_LOGS) drops
\* the newest lines
StoreLogsKeepHead(stored, lines) ==
  LET pushed == stored \o lines
  IN  IF Len(pushed) > MAX_STORED_LOGS
      THEN SubSeq(pushed, 1, MAX_STORED_LOGS)
      ELSE pushed

\* this.storedLogs.push(...lines), then the splice that keeps MAX_STORED_LOGS
\* (src/server.js 438-442, 467-471)
StoreLogs(stored, lines) ==
  LET pushed == stored \o lines
  IN  IF Len(pushed) > MAX_STORED_LOGS
      THEN SpliceHead(pushed, Len(pushed) - MAX_STORED_LOGS)
      ELSE pushed

\* the history of the lines ingested, for the properties: each with the raw
\* line it comes from and whether the live tail (or the backfill read) gave it
Arrive(logLines, lines, live) ==
  arrived \o [k \in 1..Len(logLines) |->
                [raw |-> logLines[k], line |-> lines[k], live |-> live]]

(***************************************************************************)
(* Filtering and sending                                                   *)
(***************************************************************************)
\* filterLogsForClient (src/server.js 604-619)
filterLogsForClient(client, logLines) ==
  IF client.textSearch # <<>>
  THEN SelectSeq(logLines,
                 LAMBDA line : Includes(ToLowerCase(line), client.textSearchLowerCase))
  ELSE logLines

\* a send counting payloads instead of lines: messagesSent++ after ws.send
SendToCountsPayloads(client, kind, lines, throws) ==
  [ws |-> client.ws, kind |-> kind, lines |-> lines, data |-> Join(lines, <<NL>>),
   textSearch |-> client.textSearch, ok |-> client.ws \notin throws,
   messagesSent |-> IF client.ws \notin throws THEN 1 ELSE 0]

\* a send with the counter updated before ws.send is called: a throw no
\* longer skips the update
SendToCountsFirst(client, kind, lines, throws) ==
  [ws |-> client.ws, kind |-> kind, lines |-> lines, data |-> Join(lines, <<NL>>),
   textSearch |-> client.textSearch, ok |-> client.ws \notin throws,
   messagesSent |-> Len(lines)]

\* one ws.send(data): what is sent, to whom, under which search, whether the
\* call returned (ok) or threw, and what the statement after it, which a throw
\* skips, adds to client.messagesSent (src/server.js 567-568, 644-645)
SendTo(client, kind, lines, throws) ==
  [ws |-> client.ws, kind |-> kind, lines |-> lines, data |-> Join(lines, <<NL>>),
   textSearch |-> client.textSearch, ok |-> client.ws \notin throws,
   messagesSent |-> IF client.ws \notin throws THEN Len(lines) ELSE 0]

\* the positions of the lines of logLines that the text search f lets through
MatchPositions(logLines, f) ==
  SelectSeq([k \in 1..Len(logLines) |-> k],
            LAMBDA k : Includes(ToLowerCase(logLines[k]), ToLowerCase(f)))

\* the sends with the positions in arrived of their lines: a history replay
\* takes them from stored, whose last line is the n-th arrived, a flush from
\* buffer, whose lines are at the positions bufferIds
WithIds(sends, stored, n, buffer, bufferIds) ==
  [j \in 1..Len(sends) |->
     [ws |-> sends[j].ws, kind |-> sends[j].kind, lines |-> sends[j].lines,
      data |-> sends[j].data, textSearch |-> sends[j].textSearch, ok |-> sends[j].ok,
      messagesSent |-> sends[j].messagesSent,
      ids |-> IF sends[j].kind = "history"
              THEN LET pos == SliceLast(MatchPositions(stored, sends[j].textSearch),
                                        CLIENT_HISTORY_LIMIT)
                   IN  [i \in 1..Len(pos) |-> n - Len(stored) + pos[i]]
              ELSE LET pos == MatchPositions(buffer, sends[j].textSearch)
                   IN  [i \in 1..Len(pos) |-> bufferIds[pos[i]]]]]

\* the positions of the lines the sends that returned carried to socket w
IdsTo(sends, w, kind) ==
  UNION {{sends[j].ids[i] : i \in 1..Len(sends[j].ids)} :
           j \in {j \in 1..Len(sends) :
                    sends[j].ws = w /\ sends[j].ok /\ sends[j].kind = kind}}

\* delivered, after the sends
Deliver(sends) ==
  [history |-> delivered.history \cup IdsTo(sends, Watched, "history"),
   flush |-> delivered.flush \cup IdsTo(sends, Watched, "flush")]

\* sendLogHistoryToClient that cuts to the last CLIENT_HISTORY_LIMIT lines
\* before it filters, whatever the text search
sendLogHistoryTruncateFirst(client, stored, ready, throws) ==
  IF Len(stored) = 0 THEN <<>>
  ELSE LET filteredLogs ==
             filterLogsForClient(client, SliceLast(stored, CLIENT_HISTORY_LIMIT))
       IN  IF ready[client.ws] = "OPEN"
           THEN <<SendTo(client, "history", filteredLogs, throws)>>
           ELSE <<>>

\* sendLogHistoryToClient (src/server.js 534-583): the sends it makes
sendLogHistoryToClient(client, stored, ready, throws) ==
  IF Len(stored) = 0 THEN <<>>
  ELSE LET filteredLogs ==
             IF client.textSearch # <<>>
             THEN SliceLast(filterLogsForClient(client, stored), CLIENT_HISTORY_LIMIT)
             ELSE filterLogsForClient(client, SliceLast(stored, CLIENT_HISTORY_LIMIT))
       IN  IF ready[client.ws] = "OPEN"
           THEN <<SendTo(client, "history", filteredLogs, throws)>>
           ELSE <<>>

RECURSIVE BroadcastLoopSendsEmpty(_, _, _, _)
\* the loop without the test of line 637: a viewer none of whose lines match
\* is sent the empty join
BroadcastLoopSendsEmpty(cs, buffer, ready, throws) ==
  IF cs = <<>> THEN <<>>
  ELSE LET client == Head(cs)
           filteredLogs == filterLogsForClient(client, buffer)
           here == IF ready[client.ws] = "OPEN"
                   THEN <<SendTo(client, "flush", filteredLogs, throws)>>
                   ELSE <<>>
       IN  here \o BroadcastLoopSendsEmpty(Tail(cs), buffer, ready, throws)

RECURSIVE BroadcastLoop(_, _, _, _)
\* the loop of broadcastBufferedMessages (src/server.js 631-659) over the
\* clients cs: the sends it makes; a send that throws is caught inside the loop
BroadcastLoop(cs, buffer, ready, throws) ==
  IF cs = <<>> THEN <<>>
  ELSE LET client == Head(cs)
           filteredLogs == filterLogsForClient(client, buffer)
           here == IF ready[client.ws] = "OPEN" /\ Len(filteredLogs) > 0
                   THEN <<SendTo(client, "flush", filteredLogs, throws)>>
                   ELSE <<>>
       IN  here \o BroadcastLoop(Tail(cs), buffer, ready, throws)

RECURSIVE UntilThrow(_)
\* the sends up to the first one that throws
UntilThrow(sends) ==
  IF sends = <<>> THEN <<>>
  ELSE IF Head(sends).ok THEN <<Head(sends)>> \o UntilThrow(Tail(sends))
       ELSE <<Head(sends)>>

\* broadcastBufferedMessages with the try around the loop instead of inside
\* it: the first send that throws ends the loop and the exception leaves the
\* function before the buffer is cleared
broadcastAbortsOnThrow(cs, buffer, ready, throws) ==
  IF Len(buffer) = 0
  THEN [sent |-> <<>>, raised |-> FALSE, messageBuffer |-> buffer, bufferTimeout |-> FALSE]
  ELSE LET sends == BroadcastLoop(cs, buffer, ready, throws)
           thrown == \E k \in 1..Len(sends) : ~sends[k].ok
       IN  [sent |-> UntilThrow(sends), raised |-> thrown,
            messageBuffer |-> IF thrown THEN buffer ELSE <<>>,
            bufferTimeout |-> IF thrown THEN bufferTimeout ELSE FALSE]

\* broadcastBufferedMessages leaving the loop over this.clients after the first
\* send: the viewers registered later receive nothing
broadcastToFirstViewer(cs, buffer, ready, throws) ==
  IF Len(buffer) = 0
  THEN [sent |-> <<>>, raised |-> FALSE, messageBuffer |-> buffer, bufferTimeout |-> FALSE]
  ELSE LET sends == BroadcastLoop(cs, buffer, ready, throws)
       IN  [sent |-> IF sends = <<>> THEN <<>> ELSE <<Head(sends)>>, raised |-> FALSE,
            messageBuffer |-> <<>>, bufferTimeout |-> FALSE]

\* broadcastBufferedMessages without line 666: this.bufferTimeout keeps the
\* handle of the timer after a flush
broadcastKeepsMarker(cs, buffer, ready, throws) ==
  IF Len(buffer) = 0
  THEN [sent |-> <<>>, raised |-> FALSE, messageBuffer |-> buffer, bufferTimeout |-> FALSE]
  ELSE [sent |-> BroadcastLoop(cs, buffer, ready, throws), raised |-> FALSE,
        messageBuffer |-> <<>>, bufferTimeout |-> bufferTimeout]

\* broadcastBufferedMessages keeping the buffer for the next flush when a send
\* failed or a registered viewer was not OPEN
broadcastRequeuesUnsent(cs, buffer, ready, throws) ==
  IF Len(buffer) = 0
  THEN [sent |-> <<>>, raised |-> FALSE, messageBuffer |-> buffer, bufferTimeout |-> FALSE]
  ELSE LET sends == BroadcastLoop(cs, buffer, ready, throws)
           unsent == \/ \E k \in 1..Len(sends) : ~sends[k].ok
                     \/ \E k \in 1..Len(cs) : ready[cs[k].ws] # "OPEN"
       IN  [sent |-> sends, raised |-> FALSE,
            messageBuffer |-> IF unsent THEN buffer ELSE <<>>, bufferTimeout |-> FALSE]

\* broadcastBufferedMessages without line 665: the buffer is not emptied
broadcastKeepsBuffer(cs, buffer, ready, throws) ==
  IF Len(buffer) = 0
  THEN [sent |-> <<>>, raised |-> FALSE, messageBuffer |-> buffer, bufferTimeout |-> FALSE]
  ELSE [sent |-> BroadcastLoop(cs, buffer, ready, throws), raised |-> FALSE,
        messageBuffer |-> buffer, bufferTimeout |-> FALSE]

\* broadcastBufferedMessages (src/server.js 621-667) on the buffer given: the
\* sends, whether an exception leaves the function, and the buffer and the
\* timeout marker it leaves
broadcastBufferedMessages(cs, buffer, ready, throws) ==
  IF Len(buffer) = 0
  THEN [sent |-> <<>>, raised |-> FALSE, messageBuffer |-> buffer, bufferTimeout |-> FALSE]
  ELSE [sent |-> BroadcastLoop(cs, buffer, ready, throws), raised |-> FALSE,
        messageBuffer |-> <<>>, bufferTimeout |-> FALSE]

(***************************************************************************)
(* The tail source                                                         *)
(***************************************************************************)
\* startTailProcess (src/server.js 422-428): returns when isStarted, else spawns
\* the backfill read, whose handlers are the next two actions
StartTailProcess ==
  /\ Running
  /\ isStarted \/ Len(procs) + initialReads < MaxSpawns
  /\ initialReads' = IF isStarted THEN initialReads ELSE initialReads + 1
  /\ op' = [name |-> "startTailProcess", wasStarted |-> isStarted,
            wasStarting |-> initialReads > 0]
  /\ sent' = <<>>
  /\ UNCHANGED <<clients, readyState, tail, isStarted, messageBuffer, bufferTimeout,
                 storedLogs, timerPending, procs, crashed, totalClientDisconnections,
                 closing, exited, arrived, pendingIds, delivered>>
  /\ UNCHANGED page

\* what a history replay adds to this.stats.totalMessagesSent (src/server.js
\* 574): filteredLogs.length, once the send has returned
HistoryTotalMessagesSent(sends) ==
  IF sends # <<>> /\ sends[1].ok THEN Len(sends[1].lines) ELSE 0

\* what a flush adds to this.stats.totalMessagesSent (src/server.js 662):
\* this.messageBuffer.length * successfulSends
FlushTotalMessagesSent(buffer, sends) ==
  Len(buffer) * Cardinality({j \in 1..Len(sends) : sends[j].ok})

\* the backfill handler pushing its lines to messageBuffer as well, as the
\* tail's handler does at line 474
InitialReadDataBuffers(data) ==
  /\ Running
  /\ initialReads > 0
  /\ LET logLines == LinesOf(data)
         obfuscatedLines == ObfuscateLines(logLines)
     IN  /\ Len(arrived) + Len(logLines) <= MaxArrived
         /\ storedLogs' = StoreLogs(storedLogs, obfuscatedLines)
         /\ arrived' = Arrive(logLines, obfuscatedLines, FALSE)
         /\ messageBuffer' = messageBuffer \o obfuscatedLines
         /\ pendingIds' = pendingIds \o [k \in 1..Len(logLines) |-> Len(arrived) + k]
         /\ op' = [name |-> "initialReadData", lines |-> Len(logLines), data |-> data]
  /\ sent' = <<>>
  /\ UNCHANGED <<clients, readyState, tail, isStarted, bufferTimeout,
                 timerPending, initialReads, procs, crashed, totalClientDisconnections,
                 closing, exited, delivered>>
  /\ UNCHANGED page

\* initialRead.stdout.on('data') (src/server.js 430-443)
InitialReadData(data) ==
  /\ Running
  /\ initialReads > 0
  /\ LET logLines == LinesOf(data)
         obfuscatedLines == ObfuscateLines(logLines)
     IN  /\ Len(arrived) + Len(logLines) <= MaxArrived
         /\ storedLogs' = StoreLogs(storedLogs, obfuscatedLines)
         /\ arrived' = Arrive(logLines, obfuscatedLines, FALSE)
         /\ op' = [name |-> "initialReadData", lines |-> Len(logLines), data |-> data]
  /\ sent' = <<>>
  /\ UNCHANGED <<clients, readyState, tail, isStarted, messageBuffer, bufferTimeout,
                 timerPending, initialReads, procs, crashed, totalClientDisconnections,
                 closing, exited, pendingIds, delivered>>
  /\ UNCHANGED page

\* initialRead.on('close') (src/server.js 445-451): spawns the live tail
InitialReadClose ==
  /\ Running
  /\ initialReads > 0
  /\ initialReads' = initialReads - 1
  /\ procs' = Append(procs, "running")
  /\ tail' = Len(procs) + 1
  /\ isStarted' = TRUE
  /\ op' = [name |-> "initialReadClose"]
  /\ sent' = <<>>
  /\ UNCHANGED <<clients, readyState, messageBuffer, bufferTimeout, storedLogs,
                 timerPending, crashed, totalClientDisconnections, closing, exited,
                 arrived, pendingIds, delivered>>
  /\ UNCHANGED page

\* the handler arming a timer on every read below BUFFER_SIZE, as a debounce
\* does: the flush is put off by each arrival
ArmsTimerAlways(marker) == TRUE

\* the handler without lines 480-482: below BUFFER_SIZE no timer is armed
ArmsTimerNever(marker) == FALSE

\* else if (!this.bufferTimeout) (src/server.js 480): whether the handler
\* calls setTimeout when the buffer is below BUFFER_SIZE
ArmsTimer(marker) == ~marker

\* this.tail.stdout.on('data') of tail process p (src/server.js 453-483); a
\* killed process can still have output in its pipe
TailData(p, data, throws) ==
  /\ Running
  /\ procs[p] \in {"running", "killed"}
  /\ LET logLines == LinesOf(data)
         obfuscatedLines == ObfuscateLines(logLines)
         buffer == messageBuffer \o obfuscatedLines
         ids == pendingIds \o [k \in 1..Len(logLines) |-> Len(arrived) + k]
         b == broadcastBufferedMessages(clients, buffer, readyState, throws)
         sends == WithIds(b.sent, <<>>, 0, buffer, ids)
     IN  /\ Len(arrived) + Len(logLines) <= MaxArrived
         /\ op' = [name |-> "tailData", lines |-> Len(logLines), data |-> data,
                   buffer |-> IF Len(buffer) >= BUFFER_SIZE THEN buffer ELSE <<>>,
                   armed |-> /\ logLines # <<>>
                             /\ Len(buffer) < BUFFER_SIZE
                             /\ ArmsTimer(bufferTimeout),
                   totalMessagesSent |-> IF Len(buffer) >= BUFFER_SIZE
                                         THEN FlushTotalMessagesSent(buffer, b.sent)
                                         ELSE 0]
         /\ IF logLines = <<>>
            THEN /\ sent' = <<>>
                 /\ UNCHANGED <<storedLogs, arrived, messageBuffer, bufferTimeout,
                                timerPending, crashed, pendingIds, delivered>>
            ELSE /\ storedLogs' = StoreLogs(storedLogs, obfuscatedLines)
                 /\ arrived' = Arrive(logLines, obfuscatedLines, TRUE)
                 /\ IF Len(buffer) >= BUFFER_SIZE
                    THEN /\ timerPending' = FALSE
                         /\ sent' = sends
                         /\ crashed' = b.raised
                         /\ messageBuffer' = b.messageBuffer
                         /\ bufferTimeout' = b.bufferTimeout
                         /\ pendingIds' = IF b.messageBuffer = <<>> THEN <<>> ELSE ids
                         /\ delivered' = Deliver(sends)
                    ELSE /\ messageBuffer' = buffer
                         /\ bufferTimeout' = TRUE
                         /\ timerPending' = (timerPending \/ ArmsTimer(bufferTimeout))
                         /\ pendingIds' = ids
                         /\ sent' = <<>>
                         /\ UNCHANGED <<crashed, delivered>>
  /\ UNCHANGED <<clients, readyState, tail, isStarted, initialReads, procs,
                 totalClientDisconnections, closing, exited>>
  /\ UNCHANGED page

\* the setTimeout callback armed at src/server.js 481
BufferTimeoutFires(throws) ==
  /\ Running
  /\ timerPending
  /\ LET b == broadcastBufferedMessages(clients, messageBuffer, readyState, throws)
         sends == WithIds(b.sent, <<>>, 0, messageBuffer, pendingIds)
     IN  /\ sent' = sends
         /\ crashed' = b.raised
         /\ messageBuffer' = b.messageBuffer
         /\ bufferTimeout' = b.bufferTimeout
         /\ pendingIds' = IF b.messageBuffer = <<>> THEN <<>> ELSE pendingIds
         /\ delivered' = Deliver(sends)
         /\ op' = [name |-> "flush", buffer |-> messageBuffer,
                   totalMessagesSent |-> FlushTotalMessagesSent(messageBuffer, b.sent)]
  /\ timerPending' = FALSE
  /\ UNCHANGED <<clients, readyState, tail, isStarted, storedLogs, initialReads, procs,
                 totalClientDisconnections, closing, exited, arrived>>
  /\ UNCHANGED page

\* TailGone without lines 503 and 512: isStarted stays true
TailGoneStaysStarted(name) ==
  /\ IF tail = NULL
     THEN crashed' = TRUE
     ELSE UNCHANGED crashed
  /\ op' = [name |-> name]
  /\ sent' = <<>>
  /\ UNCHANGED <<clients, readyState, tail, isStarted, messageBuffer, bufferTimeout,
                 storedLogs, timerPending, initialReads, totalClientDisconnections,
                 closing, exited, arrived, pendingIds, delivered>>
  /\ UNCHANGED page

\* the 'close' and 'error' handlers of the tail (src/server.js 496-513) read
\* this.tail.pid before they clear isStarted: with this.tail null they throw
TailGone(name) ==
  /\ IF tail = NULL
     THEN crashed' = TRUE /\ UNCHANGED isStarted
     ELSE isStarted' = FALSE /\ UNCHANGED crashed
  /\ op' = [name |-> name]
  /\ sent' = <<>>
  /\ UNCHANGED <<clients, readyState, tail, messageBuffer, bufferTimeout, storedLogs,
                 timerPending, initialReads, totalClientDisconnections, closing, exited,
                 arrived, pendingIds, delivered>>
  /\ UNCHANGED page

\* this.tail.on('close') of tail process p: it exited, killed or by itself
TailClose(p) ==
  /\ Running
  /\ procs[p] \in {"running", "killed", "errored"}
  /\ procs' = [procs EXCEPT ![p] = "closed"]
  /\ TailGone("tailClose")

\* this.tail.on('error') of tail process p
TailError(p) ==
  /\ Running
  /\ procs[p] = "running"
  /\ procs' = [procs EXCEPT ![p] = "errored"]
  /\ TailGone("tailError")

\* this.tail.stderr.on('data') of tail process p (src/server.js 485-494):
\* critical says whether the text names 'No such file', 'Permission denied'
\* or 'fatal'; only then the handler logs, reading this.tail.pid (491)
TailStderr(p, critical) ==
  /\ Running
  /\ procs[p] \in {"running", "killed"}
  /\ crashed' = (critical /\ tail = NULL)
  /\ op' = [name |-> "tailStderr", critical |-> critical]
  /\ sent' = <<>>
  /\ UNCHANGED <<clients, readyState, tail, isStarted, messageBuffer, bufferTimeout,
                 storedLogs, timerPending, initialReads, procs,
                 totalClientDisconnections, closing, exited, arrived, pendingIds,
                 delivered>>
  /\ UNCHANGED page

\* stopTailProcess without line 529: the timer is cleared, the buffer is kept
StopTailKeepsBuffer ==
  IF ~isStarted \/ tail = NULL
  THEN UNCHANGED <<tail, isStarted, messageBuffer, bufferTimeout, timerPending, procs,
                   pendingIds>>
  ELSE /\ timerPending' = FALSE
       /\ bufferTimeout' = FALSE
       /\ procs' = IF procs[tail] = "running"
                   THEN [procs EXCEPT ![tail] = "killed"]
                   ELSE procs
       /\ isStarted' = FALSE
       /\ tail' = NULL
       /\ UNCHANGED <<messageBuffer, pendingIds>>

\* the body of stopTailProcess (src/server.js 517-532)
StopTail ==
  IF ~isStarted \/ tail = NULL
  THEN UNCHANGED <<tail, isStarted, messageBuffer, bufferTimeout, timerPending, procs,
                   pendingIds>>
  ELSE /\ timerPending' = FALSE
       /\ bufferTimeout' = FALSE
       /\ procs' = IF procs[tail] = "running"
                   THEN [procs EXCEPT ![tail] = "killed"]
                   ELSE procs
       /\ isStarted' = FALSE
       /\ tail' = NULL
       /\ messageBuffer' = <<>>
       /\ pendingIds' = <<>>

\* stopTailProcess (src/server.js 517-532), called by itself
StopTailProcess ==
  /\ Running
  /\ op' = [name |-> "stopTailProcess"]
  /\ sent' = <<>>
  /\ StopTail
  /\ UNCHANGED <<clients, readyState, storedLogs, initialReads, crashed,
                 totalClientDisconnections, closing, exited, arrived, delivered>>
  /\ UNCHANGED page

\* process.on('SIGTERM') and process.on('SIGINT') (src/server.js 769-791):
\* stopTailProcess, then server.close with a callback that exits
Signal(name) ==
  /\ Running
  /\ op' = [name |-> name]
  /\ sent' = <<>>
  /\ StopTail
  /\ closing' = TRUE
  /\ UNCHANGED <<clients, readyState, storedLogs, initialReads, crashed,
                 totalClientDisconnections, exited, arrived, delivered>>
  /\ UNCHANGED page

\* the callback of server.close (src/server.js 776-779, 787-790): it runs once
\* the server is closed and every connection has ended
ServerClosed ==
  /\ Running
  /\ closing
  /\ \A ws \in WS : readyState[ws] \in {"NONE", "CLOSED"}
  /\ exited' = TRUE
  /\ op' = [name |-> "exit"]
  /\ sent' = <<>>
  /\ UNCHANGED <<clients, readyState, tail, isStarted, messageBuffer, bufferTimeout,
                 storedLogs, timerPending, initialReads, procs, crashed,
                 totalClientDisconnections, closing, arrived, pendingIds, delivered>>
  /\ UNCHANGED page

(***************************************************************************)
(* The viewers                                                             *)
(***************************************************************************)
\* the clientData of addClient (src/server.js 392-399)
NewClient(ws) == [ws |-> ws, textSearch |-> <<>>, textSearchLowerCase |-> <<>>]

\* wss.on('connection') (src/server.js 721-729): addClient (390-408)
AddClient(ws, throws) ==
  /\ Running
  /\ ~closing
  /\ readyState[ws] = "NONE"
  /\ readyState' = [readyState EXCEPT ![ws] = "OPEN"]
  /\ LET sends == WithIds(sendLogHistoryToClient(NewClient(ws), storedLogs, readyState',
                                                 throws),
                          storedLogs, Len(arrived), <<>>, <<>>)
     IN  /\ clients' = Append(clients, NewClient(ws))
         /\ sent' = sends
         /\ delivered' = Deliver(sends)
         /\ op' = [name |-> "addClient", ws |-> ws,
                   totalMessagesSent |-> HistoryTotalMessagesSent(sends)]
  /\ UNCHANGED <<tail, isStarted, messageBuffer, bufferTimeout, storedLogs,
                 timerPending, initialReads, procs, crashed, totalClientDisconnections,
                 closing, exited, arrived, pendingIds>>
  /\ UNCHANGED page

\* removeClient (src/server.js 410-420)
removeClient(cs, ws) == IF HasClient(cs, ws) THEN DeleteClient(cs, ws) ELSE cs

\* removeClient counting every call, registered or not
CountEveryRemoval(cs, ws, n) == n + 1

\* this.stats.totalClientDisconnections after removeClient (src/server.js 412-414)
CountDisconnection(cs, ws, n) == IF HasClient(cs, ws) THEN n + 1 ELSE n

\* WithTextSearch without line 591: textSearchLowerCase keeps its old value
WithTextSearchStale(client, textSearch) ==
  [client EXCEPT !.textSearch = textSearch]

\* the client record updateClientTextSearch leaves (src/server.js 590-591)
WithTextSearch(client, textSearch) ==
  [client EXCEPT !.textSearch = textSearch,
                 !.textSearchLowerCase = ToLowerCase(textSearch)]

\* updateClientTextSearch without the test of line 594: the history is sent
\* again on every call
updateClientTextSearchAlways(cs, ws, textSearch, stored, ready, throws) ==
  IF HasClient(cs, ws)
  THEN LET oldTextSearch == GetClient(cs, ws).textSearch
           client == WithTextSearch(GetClient(cs, ws), textSearch)
       IN  [clients |-> [cs EXCEPT ![IndexOf(cs, ws)] = client],
            sent |-> sendLogHistoryToClient(client, stored, ready, throws),
            found |-> TRUE,
            changed |-> oldTextSearch # client.textSearch]
  ELSE [clients |-> cs, sent |-> <<>>, found |-> FALSE, changed |-> FALSE]

\* updateClientTextSearch keeping one text search for the whole broadcaster:
\* every registered viewer gets the new value, the caller gets the replay
updateClientTextSearchForAll(cs, ws, textSearch, stored, ready, throws) ==
  IF HasClient(cs, ws)
  THEN LET oldTextSearch == GetClient(cs, ws).textSearch
           client == WithTextSearch(GetClient(cs, ws), textSearch)
       IN  [clients |-> [k \in 1..Len(cs) |-> WithTextSearch(cs[k], textSearch)],
            sent |-> IF oldTextSearch # client.textSearch
                     THEN sendLogHistoryToClient(client, stored, ready, throws)
                     ELSE <<>>,
            found |-> TRUE,
            changed |-> oldTextSearch # client.textSearch]
  ELSE [clients |-> cs, sent |-> <<>>, found |-> FALSE, changed |-> FALSE]

\* updateClientTextSearch without the test of line 587: a viewer that is not
\* registered is registered with the text search and gets the replay
updateClientTextSearchRegisters(cs, ws, textSearch, stored, ready, throws) ==
  LET known == IF HasClient(cs, ws) THEN cs ELSE Append(cs, NewClient(ws))
      oldTextSearch == GetClient(known, ws).textSearch
      client == WithTextSearch(GetClient(known, ws), textSearch)
  IN  [clients |-> [known EXCEPT ![IndexOf(known, ws)] = client],
       sent |-> IF oldTextSearch # client.textSearch
                THEN sendLogHistoryToClient(client, stored, ready, throws)
                ELSE <<>>,
       found |-> TRUE,
       changed |-> oldTextSearch # client.textSearch]

\* updateClientTextSearch (src/server.js 585-601): the clients and the sends
\* it leaves, what it returns (found) and whether the text search changed
updateClientTextSearch(cs, ws, textSearch, stored, ready, throws) ==
  IF HasClient(cs, ws)
  THEN LET oldTextSearch == GetClient(cs, ws).textSearch
           client == WithTextSearch(GetClient(cs, ws), textSearch)
       IN  [clients |-> [cs EXCEPT ![IndexOf(cs, ws)] = client],
            sent |-> IF oldTextSearch # client.textSearch
                     THEN sendLogHistoryToClient(client, stored, ready, throws)
                     ELSE <<>>,
            found |-> TRUE,
            changed |-> oldTextSearch # client.textSearch]
  ELSE [clients |-> cs, sent |-> <<>>, found |-> FALSE, changed |-> FALSE]

\* typeof data.value === 'string' ? data.value.trim() : '' (src/server.js 738)
TextSearchValue(value) == IF value.str THEN Trim(value.s) ELSE <<>>

\* the handler without the test of line 736: every message that parses
IsAnyJson(message) == message.json

\* JSON.parse(message) returns and data.type === 'setTextSearch' (src/server.js
\* 734-736); a message that does not parse is caught at 741
IsSetTextSearch(message) == message.json /\ message.type = "setTextSearch"

\* ws.on('message') (src/server.js 732-747); a socket that is closing still
\* delivers the messages that were on their way
Message(ws, message, throws) ==
  /\ Running
  /\ readyState[ws] \in {"OPEN", "CLOSING"}
  /\ IF IsSetTextSearch(message)
     THEN LET u == updateClientTextSearch(clients, ws, TextSearchValue(message.value),
                                          storedLogs, readyState, throws)
              sends == WithIds(u.sent, storedLogs, Len(arrived), <<>>, <<>>)
          IN  /\ clients' = u.clients
              /\ sent' = sends
              /\ delivered' = Deliver(sends)
              /\ op' = [name |-> "setTextSearch", ws |-> ws, found |-> u.found,
                        changed |-> u.changed,
                        textSearch |-> TextSearchValue(message.value),
                        message |-> message,
                        totalMessagesSent |-> HistoryTotalMessagesSent(u.sent)]
     ELSE /\ op' = [name |-> "ignoredMessage", ws |-> ws, message |-> message]
          /\ sent' = <<>>
          /\ UNCHANGED <<clients, delivered>>
  /\ UNCHANGED <<readyState, tail, isStarted, messageBuffer, bufferTimeout, storedLogs,
                 timerPending, initialReads, procs, crashed, totalClientDisconnections,
                 closing, exited, arrived, pendingIds>>
  /\ UNCHANGED page

\* the closing handshake of a socket begins: no event reaches the server yet
SocketClosing(ws) ==
  /\ Running
  /\ readyState[ws] = "OPEN"
  /\ readyState' = [readyState EXCEPT ![ws] = "CLOSING"]
  /\ op' = [name |-> "socketClosing", ws |-> ws]
  /\ sent' = <<>>
  /\ UNCHANGED <<clients, tail, isStarted, messageBuffer, bufferTimeout, storedLogs,
                 timerPending, initialReads, procs, crashed, totalClientDisconnections,
                 closing, exited, arrived, pendingIds, delivered>>
  /\ UNCHANGED page

\* ws.on('close') stopping the tail when the registry becomes empty
SocketCloseStopsIdleTail(ws) ==
  /\ Running
  /\ readyState[ws] \in {"OPEN", "CLOSING"}
  /\ readyState' = [readyState EXCEPT ![ws] = "CLOSED"]
  /\ clients' = removeClient(clients, ws)
  /\ totalClientDisconnections' =
       CountDisconnection(clients, ws, totalClientDisconnections)
  /\ op' = [name |-> "socketClose", ws |-> ws, found |-> HasClient(clients, ws)]
  /\ sent' = <<>>
  /\ IF removeClient(clients, ws) = <<>>
     THEN StopTail
     ELSE UNCHANGED <<tail, isStarted, messageBuffer, bufferTimeout, timerPending, procs,
                      pendingIds>>
  /\ UNCHANGED <<storedLogs, initialReads, crashed, closing, exited, arrived, delivered>>
  /\ UNCHANGED page

\* ws.on('close') (src/server.js 749-752)
SocketClose(ws) ==
  /\ Running
  /\ readyState[ws] \in {"OPEN", "CLOSING"}
  /\ readyState' = [readyState EXCEPT ![ws] = "CLOSED"]
  /\ clients' = removeClient(clients, ws)
  /\ totalClientDisconnections' =
       CountDisconnection(clients, ws, totalClientDisconnections)
  /\ op' = [name |-> "socketClose", ws |-> ws, found |-> HasClient(clients, ws)]
  /\ sent' = <<>>
  /\ UNCHANGED <<tail, isStarted, messageBuffer, bufferTimeout, storedLogs,
                 timerPending, initialReads, procs, crashed, closing, exited, arrived,
                 pendingIds, delivered>>
  /\ UNCHANGED page

\* ws.on('error') (src/server.js 754-763): the socket is then closing
SocketError(ws) ==
  /\ Running
  /\ readyState[ws] \in {"OPEN", "CLOSING"}
  /\ readyState' = [readyState EXCEPT ![ws] = "CLOSING"]
  /\ clients' = removeClient(clients, ws)
  /\ totalClientDisconnections' =
       CountDisconnection(clients, ws, totalClientDisconnections)
  /\ op' = [name |-> "socketError", ws |-> ws, found |-> HasClient(clients, ws)]
  /\ sent' = <<>>
  /\ UNCHANGED <<tail, isStarted, messageBuffer, bufferTimeout, storedLogs,
                 timerPending, initialReads, procs, crashed, closing, exited, arrived,
                 pendingIds, delivered>>
  /\ UNCHANGED page

RECURSIVE SweepSkipping(_, _, _)
\* the loop stepping by index over an array of entries: after a delete the
\* entry that moved into the freed place is passed over
SweepSkipping(cs, ready, k) ==
  IF k > Len(cs) THEN cs
  ELSE IF ready[cs[k].ws] # "OPEN"
       THEN SweepSkipping(DeleteClient(cs, cs[k].ws), ready, k + 1)
       ELSE SweepSkipping(cs, ready, k + 1)

RECURSIVE Sweep(_, _, _)
\* for (const [ws, client] of logBroadcaster.clients) with clients.delete(ws)
\* in its body (src/server.js 814-818), from the k-th entry on: the Map
\* iterator visits the entries in insertion order, and after the entry it is
\* on is deleted it goes on with the entry that followed it
Sweep(cs, ready, k) ==
  IF k > Len(cs) THEN cs
  ELSE IF ready[cs[k].ws] # "OPEN"
       THEN Sweep(DeleteClient(cs, cs[k].ws), ready, k)
       ELSE Sweep(cs, ready, k + 1)

\* the periodic health check (src/server.js 811-836)
HealthCheck ==
  /\ Running
  /\ clients' = Sweep(clients, readyState, 1)
  /\ op' = [name |-> "healthCheck", cleaned |-> Len(clients) - Len(clients')]
  /\ sent' = <<>>
  /\ UNCHANGED <<readyState, tail, isStarted, messageBuffer, bufferTimeout, storedLogs,
                 timerPending, initialReads, procs, crashed, totalClientDisconnections,
                 closing, exited, arrived, pendingIds, delivered>>
  /\ UNCHANGED page

(***************************************************************************)
(* The viewer script (src/app.js)                                          *)
(***************************************************************************)
\* the payloads a page receives: the empty one, one line, two lines
Payloads ==
  { <<>>,
    ObfuscatedTable[LineB],
    Join(<<ObfuscatedTable[LineA], ObfuscatedTable[LineB]>>, <<NL>>) }

\* event.data.split('\n').filter(line => line.trim()) (src/app.js 89)
PayloadLines(data) == SelectSeq(Split(data, <<NL>>), LAMBDA line : Trim(line) # <<>>)

\* Array.prototype.splice(0, n): what is removed and what is left
SpliceFirst(arr, n) ==
  IF Len(arr) <= n
  THEN [removed |-> arr, left |-> <<>>]
  ELSE [removed |-> SubSeq(arr, 1, n), left |-> SubSeq(arr, n + 1, Len(arr))]

\* ws.onmessage (src/app.js 84-105)
OnMessage(data) ==
  /\ messagesReceived < MaxMessages
  /\ messagesReceived' = messagesReceived + 1
  /\ pendingMessages' = pendingMessages \o PayloadLines(data)
  /\ IF ~renderTimeout
     THEN renderTimeout' = TRUE /\ renderTimers' = renderTimers + 1
     ELSE UNCHANGED <<renderTimeout, renderTimers>>
  /\ op' = [name |-> "onmessage", lines |-> Len(PayloadLines(data))]
  /\ sent' = <<>>
  /\ UNCHANGED <<server, allLogs, userHasScrolledUp, manuallyPaused>>

\* processPendingMessages (src/app.js 107-164), run by a timer
ProcessPendingMessages ==
  /\ renderTimers > 0
  /\ IF userHasScrolledUp \/ manuallyPaused
     THEN /\ renderTimeout' = FALSE
          /\ renderTimers' = renderTimers - 1
          /\ op' = [name |-> "processPendingMessages", batch |-> 0]
          /\ UNCHANGED <<allLogs, pendingMessages>>
     ELSE LET adaptiveBatchSize ==
                IF Len(pendingMessages) > ADAPTIVE_THRESHOLD
                THEN IF ADAPTIVE_BATCH < Len(pendingMessages)
                     THEN ADAPTIVE_BATCH ELSE Len(pendingMessages)
                ELSE BATCH_SIZE
              spliced == SpliceFirst(pendingMessages, adaptiveBatchSize)
              pushed == allLogs \o spliced.removed
          IN  /\ pendingMessages' = spliced.left
              /\ allLogs' = IF Len(pushed) > MAX_LOGS
                            THEN SpliceHead(pushed, Len(pushed) - MAX_LOGS)
                            ELSE pushed
              /\ renderTimeout' = (spliced.left # <<>>)
              /\ renderTimers' = renderTimers - 1 + (IF spliced.left # <<>> THEN 1 ELSE 0)
              /\ op' = [name |-> "processPendingMessages", batch |-> Len(spliced.removed)]
  /\ sent' = <<>>
  /\ UNCHANGED <<server, userHasScrolledUp, manuallyPaused, messagesReceived>>

\* the click handler without lines 193-195: resuming schedules nothing
PauseClickResumesNothing ==
  /\ manuallyPaused' = ~manuallyPaused
  /\ op' = [name |-> "pauseClick"]
  /\ sent' = <<>>
  /\ UNCHANGED <<server, allLogs, pendingMessages, renderTimeout, renderTimers,
                 userHasScrolledUp, messagesReceived>>

\* the click handler of the pause button (src/app.js 180-199)
PauseClick ==
  /\ manuallyPaused' = ~manuallyPaused
  /\ IF manuallyPaused /\ pendingMessages # <<>> /\ ~renderTimeout
     THEN renderTimeout' = TRUE /\ renderTimers' = renderTimers + 1
     ELSE UNCHANGED <<renderTimeout, renderTimers>>
  /\ op' = [name |-> "pauseClick"]
  /\ sent' = <<>>
  /\ UNCHANGED <<server, allLogs, pendingMessages, userHasScrolledUp, messagesReceived>>

\* the scroll handler of the log box (src/app.js 334-365); isAtBottom is
\* what it computes at line 335
Scroll(isAtBottom) ==
  /\ userHasScrolledUp' = ~isAtBottom
  /\ IF /\ userHasScrolledUp
        /\ isAtBottom
        /\ ~manuallyPaused
        /\ pendingMessages # <<>>
        /\ ~renderTimeout
     THEN renderTimeout' = TRUE /\ renderTimers' = renderTimers + 1
     ELSE UNCHANGED <<renderTimeout, renderTimers>>
  /\ op' = [name |-> "scroll", isAtBottom |-> isAtBottom]
  /\ sent' = <<>>
  /\ UNCHANGED <<server, allLogs, pendingMessages, manuallyPaused, messagesReceived>>

\* the events of a page
NextPage ==
  \/ \E data \in Payloads : OnMessage(data)
  \/ ProcessPendingMessages
  \/ PauseClick
  \/ \E isAtBottom \in BOOLEAN : Scroll(isAtBottom)

\* a page by itself; the browser runs a timer that is due
SpecPage == Init /\ [][NextPage]_vars /\ WF_vars(ProcessPendingMessages)

(***************************************************************************)
(* The specification                                                       *)
(***************************************************************************)
\* the sockets a send of a flush can throw for: the viewers it can send to
Throws == SUBSET {clients[k].ws : k \in {j \in 1..Len(clients) : readyState[clients[j].ws] = "OPEN"}}

\* the sockets a send of a history replay to ws can throw for
ThrowsTo(ws) == IF storedLogs = <<>> THEN {{}} ELSE SUBSET {ws}

\* the events of the tail source: its lifecycle, ingestion and the flush
NextSource ==
  \/ StartTailProcess
  \/ \E data \in Chunks : InitialReadData(data)
  \/ InitialReadClose
  \/ \E p \in 1..Len(procs), data \in Chunks, throws \in Throws : TailData(p, data, throws)
  \/ \E throws \in Throws : BufferTimeoutFires(throws)
  \/ \E p \in 1..Len(procs) : TailClose(p)
  \/ \E p \in 1..Len(procs) : TailError(p)
  \/ StopTailProcess

\* the events of the viewers
NextViewers ==
  \/ \E ws \in WS : \E throws \in ThrowsTo(ws) : AddClient(ws, throws)
  \/ \E ws \in WS, message \in Messages :
       \E throws \in ThrowsTo(ws) : Message(ws, message, throws)
  \/ \E ws \in WS : SocketClosing(ws)
  \/ \E ws \in WS : SocketClose(ws)
  \/ \E ws \in WS : SocketError(ws)
  \/ HealthCheck

\* the termination signals and the exit
NextShutdown ==
  \/ \E name \in {"SIGTERM", "SIGINT"} : Signal(name)
  \/ ServerClosed

\* the stderr output of a tail process
NextStderr == \E p \in 1..Len(procs), critical \in BOOLEAN : TailStderr(p, critical)

Next == NextSource \/ NextViewers \/ NextShutdown \/ NextStderr \/ NextPage

\* every event, in any order
Spec == Init /\ [][Next]_vars

\* the tail source alone: startTailProcess and stopTailProcess called in any
\* order, no viewer connects
SpecSource == Init /\ [][NextSource]_vars

\* the listen callback spawning the live tail together with the backfill read
ListenSpawnsTailAtOnce ==
  /\ Running
  /\ initialReads = 0
  /\ procs = <<>>
  /\ initialReads' = 1
  /\ procs' = <<"running">>
  /\ tail' = 1
  /\ isStarted' = TRUE
  /\ op' = [name |-> "startTailProcess", wasStarted |-> FALSE, wasStarting |-> FALSE]
  /\ sent' = <<>>
  /\ UNCHANGED <<clients, readyState, messageBuffer, bufferTimeout, storedLogs,
                 timerPending, crashed, totalClientDisconnections, closing, exited,
                 arrived, pendingIds, delivered>>
  /\ UNCHANGED page

\* the server.listen callback (src/server.js 793-808): the one call of
\* startTailProcess the program makes
Listen ==
  /\ initialReads = 0
  /\ procs = <<>>
  /\ StartTailProcess

\* the messages of the viewers that set the search "e" and clear it
ServingMessages ==
  {m \in Messages : m.json /\ m.type = "setTextSearch" /\ m.value.str
                       /\ m.value.s \in {<<>>, <<"e">>}}

\* socket ws is the ws-th connection the server accepts, and is not the one
\* whose deliveries are recorded
ConnectsNext(ws) ==
  /\ ws # Watched
  /\ \A other \in WS : other < ws => readyState[other] # "NONE"

\* the server as started, serving viewers whose sockets close cleanly: the tail
\* is started once and is neither stopped nor lost
NextServing ==
  \/ Listen
  \/ \E data \in Chunks : InitialReadData(data)
  \/ InitialReadClose
  \/ \E p \in 1..Len(procs), data \in Chunks, throws \in Throws : TailData(p, data, throws)
  \/ \E throws \in Throws : BufferTimeoutFires(throws)
  \/ \E ws \in WS : \E throws \in ThrowsTo(ws) : ConnectsNext(ws) /\ AddClient(ws, throws)
  \/ \E ws \in WS, message \in ServingMessages :
       \E throws \in ThrowsTo(ws) : Message(ws, message, throws)
  \/ \E ws \in WS : SocketClose(ws)

SpecServing == Init /\ [][NextServing]_vars

\* the server as started, serving one viewer that sends every kind of message
NextViewer ==
  \/ Listen
  \/ \E data \in Chunks : InitialReadData(data)
  \/ InitialReadClose
  \/ \E p \in 1..Len(procs), data \in Chunks, throws \in Throws : TailData(p, data, throws)
  \/ \E throws \in Throws : BufferTimeoutFires(throws)
  \/ \E ws \in WS : \E throws \in ThrowsTo(ws) : ws = 1 /\ AddClient(ws, throws)
  \/ \E ws \in WS, message \in Messages :
       \E throws \in ThrowsTo(ws) : Message(ws, message, throws)
  \/ \E ws \in WS : SocketClose(ws)

SpecViewer == Init /\ [][NextViewer]_vars

\* the server as started, serving the one viewer whose deliveries are recorded
NextDelivery ==
  \/ Listen
  \/ \E data \in Chunks : InitialReadData(data)
  \/ InitialReadClose
  \/ \E p \in 1..Len(procs), data \in Chunks, throws \in Throws : TailData(p, data, throws)
  \/ \E throws \in Throws : BufferTimeoutFires(throws)
  \/ \E throws \in ThrowsTo(Watched) : AddClient(Watched, throws)
  \/ \E message \in ServingMessages :
       \E throws \in ThrowsTo(Watched) : Message(Watched, message, throws)
  \/ SocketClose(Watched)

SpecDelivery == Init /\ [][NextDelivery]_vars

\* the live tail, without a backfill, feeding the viewer whose deliveries are
\* recorded; the event loop runs the flush timer when it is due
NextLive ==
  \/ Listen
  \/ InitialReadClose
  \/ \E p \in 1..Len(procs), data \in Chunks, throws \in Throws : TailData(p, data, throws)
  \/ \E throws \in Throws : BufferTimeoutFires(throws)
  \/ AddClient(Watched, {})
  \/ \E message \in ServingMessages : Message(Watched, message, {})
  \/ SocketClose(Watched)

SpecLive ==
  /\ Init
  /\ [][NextLive]_vars
  /\ WF_vars(\E throws \in Throws : BufferTimeoutFires(throws))

\* the events of one tail process that is stopped, with one viewer connecting
NextStop ==
  \/ Listen
  \/ InitialReadClose
  \/ \E p \in 1..Len(procs), data \in Chunks, throws \in Throws : TailData(p, data, throws)
  \/ NextStderr
  \/ \E throws \in Throws : BufferTimeoutFires(throws)
  \/ \E p \in 1..Len(procs) : TailClose(p)
  \/ \E p \in 1..Len(procs) : TailError(p)
  \/ StopTailProcess
  \/ AddClient(Watched, {})

\* the reads of a process that writes "E a:b::1\n" again and again
SplitReads == Fragments \cup {LineA \o <<NL>>}

\* the backfill read and the tail with reads that cut a line, and one viewer
NextSplit ==
  \/ Listen
  \/ \E data \in SplitReads : InitialReadData(data)
  \/ InitialReadClose
  \/ \E p \in 1..Len(procs), data \in SplitReads, throws \in Throws : TailData(p, data, throws)
  \/ \E throws \in Throws : BufferTimeoutFires(throws)
  \/ AddClient(Watched, {})

SpecSplit == Init /\ [][NextSplit]_vars

\* the live tail feeding viewers that are removed, by their 'close' or 'error'
\* event or by the sweep, and whose last messages still arrive
NextGone ==
  \/ Listen
  \/ InitialReadClose
  \/ \E p \in 1..Len(procs), throws \in Throws : TailData(p, LineA \o <<NL>>, throws)
  \/ \E throws \in Throws : BufferTimeoutFires(throws)
  \/ \E ws \in WS : \E throws \in ThrowsTo(ws) : ConnectsNext(ws) /\ AddClient(ws, throws)
  \/ \E ws \in WS, message \in ServingMessages :
       \E throws \in ThrowsTo(ws) : Message(ws, message, throws)
  \/ \E ws \in WS : SocketClosing(ws)
  \/ \E ws \in WS : SocketClose(ws)
  \/ \E ws \in WS : SocketError(ws)
  \/ HealthCheck

SpecGone == Init /\ [][NextGone]_vars

\* the server started once, its tail stopped by stopTailProcess or exiting
SpecStop == Init /\ [][NextStop]_vars

\* the server as started, serving one viewer, until a termination signal and
\* after it
NextSignal ==
  \/ Listen
  \/ \E data \in Chunks : InitialReadData(data)
  \/ InitialReadClose
  \/ \E p \in 1..Len(procs), data \in Chunks, throws \in ThrowsTo(Watched) : TailData(p, data, throws)
  \/ \E throws \in ThrowsTo(Watched) : BufferTimeoutFires(throws)
  \/ \E p \in 1..Len(procs) : TailClose(p)
  \/ \E throws \in ThrowsTo(1) : AddClient(1, throws)
  \/ SocketClose(1)
  \/ \E name \in {"SIGTERM", "SIGINT"} : Signal(name)
  \/ ServerClosed

\* the event loop runs a callback that is due: the callback of server.close
\* and the flush timer
SpecSignal ==
  /\ Init
  /\ [][NextSignal]_vars
  /\ WF_vars(ServerClosed)
  /\ WF_vars(\E throws \in Throws : BufferTimeoutFires(throws))

\* the server as started, serving one viewer, with a tail process that can
\* exit or fail by itself; startTailProcess is not called again
NextTailLoss ==
  \/ Listen
  \/ \E data \in Chunks : InitialReadData(data)
  \/ InitialReadClose
  \/ \E p \in 1..Len(procs), data \in Chunks, throws \in Throws : TailData(p, data, throws)
  \/ \E throws \in Throws : BufferTimeoutFires(throws)
  \/ \E p \in 1..Len(procs) : TailClose(p)
  \/ \E p \in 1..Len(procs) : TailError(p)
  \/ \E throws \in ThrowsTo(1) : AddClient(1, throws)
  \/ \E message \in ServingMessages :
       \E throws \in ThrowsTo(1) : Message(1, message, throws)
  \/ SocketClose(1)

SpecTailLoss == Init /\ [][NextTailLoss]_vars

\* the viewers' side of the server before any line is stored, with sockets
\* that fail, that close without their close event having been delivered yet,
\* and the health check
NextSweep ==
  \/ \E ws \in WS : \E throws \in ThrowsTo(ws) :
       (\A other \in WS : other < ws => readyState[other] # "NONE")
         /\ AddClient(ws, throws)
  \/ \E ws \in WS : SocketClosing(ws)
  \/ \E ws \in WS : SocketClose(ws)
  \/ \E ws \in WS : SocketError(ws)
  \/ HealthCheck

SpecSweep == Init /\ [][NextSweep]_vars

\* the live tail feeding two viewers whose sockets can be closing, still
\* registered, when a flush runs
NextFlush ==
  \/ Listen
  \/ InitialReadClose
  \/ \E p \in 1..Len(procs), data \in Chunks, throws \in Throws : TailData(p, data, throws)
  \/ \E throws \in Throws : BufferTimeoutFires(throws)
  \/ \E ws \in WS : \E throws \in ThrowsTo(ws) : ConnectsNext(ws) /\ AddClient(ws, throws)
  \/ \E ws \in WS : SocketClosing(ws)
  \/ \E ws \in WS : SocketClose(ws)

SpecFlush == Init /\ [][NextFlush]_vars

\* the started server with viewers that come and go in every way: clean
\* close, failure, close without a delivered event, and the health check
NextChurn ==
  \/ Listen
  \/ InitialReadClose
  \/ \E ws \in WS : \E throws \in ThrowsTo(ws) :
       (\A other \in WS : other < ws => readyState[other] # "NONE")
         /\ AddClient(ws, throws)
  \/ \E ws \in WS : SocketClosing(ws)
  \/ \E ws \in WS : SocketClose(ws)
  \/ \E ws \in WS : SocketError(ws)
  \/ HealthCheck

SpecChurn == Init /\ [][NextChurn]_vars

(***************************************************************************)
(* Properties                                                              *)
(***************************************************************************)
\* the lines pushed to storedLogs so far, in arrival order
ArrivedLines == [k \in 1..Len(arrived) |-> arrived[k].line]

\* line matches the text search f: line.toLowerCase().includes(f.toLowerCase())
Matches(line, f) == Includes(ToLowerCase(line), ToLowerCase(f))

\* the lines of arr that match f, in order
Matching(arr, f) == SelectSeq(arr, LAMBDA line : Matches(line, f))

\* the tail processes that are running
LiveTails == {p \in 1..Len(procs) : procs[p] = "running"}

\* C1: storedLogs holds at most MAX_STORED_LOGS lines, and they are the
\* min(total, MAX_STORED_LOGS) lines pushed last, backfill and live, in the
\* order they arrived.
C1_StoredLogsAreTheLastArrived ==
  /\ Len(storedLogs) <= MAX_STORED_LOGS
  /\ Len(storedLogs) = IF Len(arrived) < MAX_STORED_LOGS THEN Len(arrived)
                       ELSE MAX_STORED_LOGS
  /\ \A k \in 1..Len(storedLogs) :
       storedLogs[k] = ArrivedLines[Len(arrived) - Len(storedLogs) + k]

\* C1 witness: more lines have arrived than storedLogs keeps, the last of them
\* from the live tail
C1_Witness ==
  /\ Len(arrived) > MAX_STORED_LOGS
  /\ Len(storedLogs) = MAX_STORED_LOGS
  /\ op.name = "tailData"
  /\ op.lines > 0

\* C2: every line of every payload sent, by a flush or by a history replay,
\* matches the text search its viewer has in the registry when it is sent,
\* letter case folded on both sides; the payload is the join of these lines.
C2_PayloadsMatchTheViewersSearch ==
  \A j \in 1..Len(sent) :
    /\ HasClient(clients, sent[j].ws)
    /\ \A k \in 1..Len(sent[j].lines) :
         Matches(sent[j].lines[k], GetClient(clients, sent[j].ws).textSearch)
    /\ sent[j].data = Join(sent[j].lines, <<NL>>)

\* C2 witness: a flush sends a viewer with a text search fewer lines than the
\* buffer held
C2_Witness ==
  /\ op.name \in {"flush", "tailData"}
  /\ \E j \in 1..Len(sent) :
       /\ sent[j].kind = "flush"
       /\ sent[j].textSearch # <<>>
       /\ sent[j].lines # <<>>
       /\ Len(sent[j].lines) < Len(op.buffer)

\* C3: at most one tail process is running, whatever calls of startTailProcess
\* and stopTailProcess and whatever exits of the tail have happened.
C3_AtMostOneLiveTail == Cardinality(LiveTails) <= 1

\* C4: a call of startTailProcess made while the source is live, or while a
\* backfill read is still running, spawns nothing.
C4_SecondStartSpawnsNothing ==
  [][(op'.name = "startTailProcess" /\ (isStarted \/ initialReads > 0))
       => (initialReads' = initialReads /\ procs' = procs)]_vars

\* the lines of the payloads sent by the last operation
SentLines == UNION {{sent[j].lines[k] : k \in 1..Len(sent[j].lines)} : j \in 1..Len(sent)}

\* what one pass of the redactor makes of the raw lines that arrived
RedactedOnce == {ObfuscatedTable[arrived[k].raw] : k \in 1..Len(arrived)}

\* C5: every line in storedLogs, in messageBuffer or in a payload is a raw line
\* that arrived, passed through the redactor once; storedLogs holds them in the
\* order of arrival.
C5_LinesAreRedactedOnce ==
  /\ \A k \in 1..Len(storedLogs) :
       storedLogs[k] = ObfuscatedTable[arrived[Len(arrived) - Len(storedLogs) + k].raw]
  /\ \A k \in 1..Len(messageBuffer) : messageBuffer[k] \in RedactedOnce
  /\ SentLines \subseteq RedactedOnce

\* C5 witness: a line on which a second pass of the redactor would show is
\* stored and is sent to a viewer
C5_Witness ==
  \E line \in SentLines :
    /\ obfuscateIPAddresses(line) # line
    /\ \E k \in 1..Len(storedLogs) : storedLogs[k] = line
    /\ \E k \in 1..Len(arrived) : arrived[k].raw # line /\ arrived[k].line = line

\* the payload of a history replay for the text search f: the last
\* CLIENT_HISTORY_LIMIT of the lines of storedLogs that match f
ReplayOf(f) == SliceLast(Matching(storedLogs, f), CLIENT_HISTORY_LIMIT)

\* C6 (as claimed): addClient sends the new viewer one payload, the join of
\* the last min(CLIENT_HISTORY_LIMIT, length) lines of storedLogs, the empty
\* string when storedLogs is empty.
C6_AddClientSendsOnePayload ==
  op.name = "addClient" =>
    /\ Len(sent) = 1
    /\ sent[1].ws = op.ws
    /\ sent[1].lines = SliceLast(storedLogs, CLIENT_HISTORY_LIMIT)
    /\ sent[1].data = Join(SliceLast(storedLogs, CLIENT_HISTORY_LIMIT), <<NL>>)

\* C7: a history replay for a viewer with a text search f sends the last
\* min(CLIENT_HISTORY_LIMIT, m) of the m lines of the whole of storedLogs that
\* match f, in arrival order.
C7_ReplayFiltersThenTruncates ==
  \A j \in 1..Len(sent) :
    (sent[j].kind = "history" /\ sent[j].textSearch # <<>>) =>
      /\ sent[j].lines = ReplayOf(sent[j].textSearch)
      /\ sent[j].data = Join(ReplayOf(sent[j].textSearch), <<NL>>)

\* C7 witness: a replay holds a matching line that is not among the last
\* CLIENT_HISTORY_LIMIT lines of storedLogs
C7_Witness ==
  \E j \in 1..Len(sent) :
    /\ sent[j].kind = "history"
    /\ sent[j].textSearch # <<>>
    /\ Len(storedLogs) > CLIENT_HISTORY_LIMIT
    /\ Len(sent[j].lines) >
         Len(Matching(SliceLast(storedLogs, CLIENT_HISTORY_LIMIT), sent[j].textSearch))

\* C8: setting the text search of a registered viewer to the value it has sends
\* nothing and leaves the registry, storedLogs and messageBuffer as they were.
C8_SameSearchChangesNothing ==
  [][(/\ op'.name = "setTextSearch"
      /\ HasClient(clients, op'.ws)
      /\ op'.textSearch = GetClient(clients, op'.ws).textSearch)
       => (/\ sent' = <<>>
           /\ clients' = clients
           /\ storedLogs' = storedLogs
           /\ messageBuffer' = messageBuffer)]_vars

\* C8 witness: a registered viewer with an open socket sets the text search it
\* has, while storedLogs holds lines to replay
C8_Witness ==
  /\ op.name = "setTextSearch"
  /\ op.found
  /\ ~op.changed
  /\ op.textSearch # <<>>
  /\ readyState[op.ws] = "OPEN"
  /\ Matching(storedLogs, op.textSearch) # <<>>

\* C9 (as claimed): setting the text search of a registered viewer with an
\* open socket to another value sends that viewer one history replay, made
\* with the new text search, also when storedLogs is empty.
C9_ChangedSearchSendsOneReplay ==
  (op.name = "setTextSearch" /\ op.found /\ op.changed /\ readyState[op.ws] = "OPEN") =>
    /\ Len(sent) = 1
    /\ sent[1].ws = op.ws
    /\ sent[1].kind = "history"
    /\ sent[1].textSearch = op.textSearch
    /\ sent[1].lines = ReplayOf(op.textSearch)

\* the flush the last operation ran, if it ran one on a buffer with lines
Flushed == op.name \in {"flush", "tailData"} /\ op.buffer # <<>>

\* C10: in a flush, whichever sends throw, ws.send is called for every
\* registered viewer with an open socket and lines of the buffer that match its
\* text search, with exactly those lines, and no exception leaves
\* broadcastBufferedMessages.
C10_FlushSurvivesAThrowingSend ==
  Flushed =>
    /\ ~crashed
    /\ \A k \in 1..Len(clients) :
         LET c == clients[k]
         IN  (readyState[c.ws] = "OPEN" /\ Matching(op.buffer, c.textSearch) # <<>>)
               => \E j \in 1..Len(sent) :
                    /\ sent[j].ws = c.ws
                    /\ sent[j].kind = "flush"
                    /\ sent[j].lines = Matching(op.buffer, c.textSearch)

\* C10 witness: in one flush the send to a viewer throws and a viewer after it
\* in the registry receives its payload
C10_Witness ==
  /\ Flushed
  /\ \E i, j \in 1..Len(sent) : i < j /\ ~sent[i].ok /\ sent[j].ok

\* the positions in arrived of the lines of the payloads of kind kind that
\* reached the watched viewer in the last operation
WatchedIds(kind) == IdsTo(sent, Watched, kind)

\* C11 (as claimed, the case it names): no line reaches a viewer twice; a line
\* that a history replay has delivered to the viewer is not sent to it again by
\* a later flush.
C11_FlushResendsNoReplayedLine ==
  WatchedIds("flush") \cap delivered.history = {}

\* every payload of the last operation holds its lines in the order in which
\* they were ingested
PayloadsInOrder ==
  \A j \in 1..Len(sent) :
    /\ Len(sent[j].ids) = Len(sent[j].lines)
    /\ \A i \in 1..Len(sent[j].ids) :
         /\ sent[j].ids[i] \in 1..Len(arrived)
         /\ sent[j].lines[i] = arrived[sent[j].ids[i]].line
         /\ i > 1 => sent[j].ids[i - 1] < sent[j].ids[i]

C13_SignalStopsTheSource ==
  op.name \in {"SIGTERM", "SIGINT"} =>
    /\ LiveTails = {}
    /\ initialReads = 0
    /\ ~timerPending
    /\ ~bufferTimeout
    /\ messageBuffer = <<>>

\* C14 (as claimed): after a termination signal every viewer transport gets
\* closed and the process exits, also with viewers connected at the signal.
C14_SignalLeadsToExit ==
  closing ~> (exited /\ \A ws \in WS : readyState[ws] \in {"NONE", "CLOSED"})

\* the tail process was spawned and has exited or failed
TailLost == procs # <<>> /\ \A p \in 1..Len(procs) : procs[p] \in {"closed", "errored"}

\* C15: once the tail process has exited or failed by itself, isStarted is
\* false, no process is spawned in its place, no handler has thrown, a viewer
\* that connects or changes its text search is sent the replay of storedLogs,
\* and no step ingests a line: storedLogs stays as it is.
C15_TailLossStopsTheSource ==
  /\ [](TailLost =>
          /\ ~isStarted
          /\ ~crashed
          /\ initialReads = 0
          /\ Len(procs) = 1
          /\ (op.name = "addClient" /\ storedLogs # <<>>) =>
                /\ Len(sent) = 1
                /\ sent[1].ws = op.ws
                /\ sent[1].lines = SliceLast(storedLogs, CLIENT_HISTORY_LIMIT)
          /\ (op.name = "setTextSearch" /\ op.changed /\ storedLogs # <<>>
                 /\ readyState[op.ws] = "OPEN") =>
                /\ Len(sent) = 1
                /\ sent[1].ws = op.ws
                /\ sent[1].lines = ReplayOf(op.textSearch))
  /\ [][TailLost' => (storedLogs' = storedLogs /\ arrived' = arrived)]_vars

\* C15 witness: after the tail process has exited with lines stored, a viewer
\* connects and is sent the replay
C15_Witness ==
  /\ TailLost
  /\ op.name = "addClient"
  /\ Len(sent) = 1
  /\ sent[1].lines # <<>>

\* the last handler was ws.on('message')
MessageHandled == op.name \in {"setTextSearch", "ignoredMessage"}

\* C16: a message that is not JSON, or whose type is not setTextSearch, changes
\* nothing: the registry (and with it the sender's registration and text
\* search), every readyState, storedLogs and messageBuffer are as before,
\* ws.send is not called, and the handler does not throw.
C16_OtherMessagesAreIgnored ==
  [][(MessageHandled' /\ ~(op'.message.json /\ op'.message.type = "setTextSearch")) =>
       /\ clients' = clients
       /\ readyState' = readyState
       /\ storedLogs' = storedLogs
       /\ messageBuffer' = messageBuffer
       /\ sent' = <<>>
       /\ ~crashed']_vars

\* C16 witness: a registered viewer with a text search and lines to replay
\* sends a JSON message of another type
C16_Witness ==
  /\ MessageHandled
  /\ op.message.json
  /\ op.message.type # "setTextSearch"
  /\ HasClient(clients, op.ws)
  /\ GetClient(clients, op.ws).textSearch # <<>>
  /\ ReplayOf(GetClient(clients, op.ws).textSearch) # <<>>

\* the registered viewers with an open socket and an empty text search
OpenUnfiltered ==
  {k \in 1..Len(clients) :
     readyState[clients[k].ws] = "OPEN" /\ clients[k].textSearch = <<>>}

\* C17: in a flush, every registered viewer with an open socket and an empty
\* text search is the target of exactly one ws.send, whose data is the lines of
\* messageBuffer as they were when the flush began, all of them, in the order
\* in which they arrived, joined by newlines.
C17_FlushSendsEachViewerTheBatch ==
  Flushed =>
    \A k \in OpenUnfiltered :
      /\ Cardinality({j \in 1..Len(sent) : sent[j].ws = clients[k].ws}) = 1
      /\ \A j \in 1..Len(sent) :
           sent[j].ws = clients[k].ws =>
             /\ sent[j].kind = "flush"
             /\ sent[j].lines = op.buffer
             /\ sent[j].data = Join(op.buffer, <<NL>>)
             /\ \A i \in 2..Len(sent[j].ids) : sent[j].ids[i - 1] < sent[j].ids[i]

\* C17 witness: a flush of two lines with two such viewers registered
C17_Witness ==
  /\ Flushed
  /\ Len(op.buffer) = 2
  /\ Cardinality(OpenUnfiltered) = 2
  /\ Len(sent) = 2

\* C18: when a viewer's setTextSearch message is handled, every ws.send goes to
\* that viewer, so that no other viewer's messagesSent grows, and the registry
\* holds the same viewers in the same order, every other one with the text
\* search it had, on a socket in the state it was in.
C18_FilterChangeTouchesOneViewer ==
  [][op'.name = "setTextSearch" =>
       /\ \A j \in 1..Len(sent') : sent'[j].ws = op'.ws
       /\ Len(clients') = Len(clients)
       /\ \A k \in 1..Len(clients) :
            /\ clients'[k].ws = clients[k].ws
            /\ clients[k].ws # op'.ws => clients'[k] = clients[k]
       /\ readyState' = readyState
       /\ totalClientDisconnections' = totalClientDisconnections]_vars

\* C18 witness: a viewer changes its text search and is sent a replay while
\* another viewer, with another text search and an open socket, is registered
C18_Witness ==
  /\ op.name = "setTextSearch"
  /\ op.changed
  /\ Len(sent) = 1
  /\ \E k \in 1..Len(clients) :
       /\ clients[k].ws # op.ws
       /\ readyState[clients[k].ws] = "OPEN"
       /\ clients[k].textSearch # op.textSearch

\* C19: the health check leaves in the registry exactly the viewers whose
\* socket is OPEN, in their order: every viewer whose socket is not OPEN is
\* removed, its close event delivered or not, none is passed over, no OPEN one
\* is removed, and the loop that deletes while it iterates does not throw.
C19_SweepKeepsExactlyTheOpen ==
  [][op'.name = "healthCheck" =>
       /\ clients' = SelectSeq(clients, LAMBDA c : readyState[c.ws] = "OPEN")
       /\ \A k \in 1..Len(clients') : readyState'[clients'[k].ws] = "OPEN"
       /\ ~crashed']_vars

\* C19 witness: a health check has removed two viewers and kept a third
C19_Witness ==
  /\ op.name = "healthCheck"
  /\ op.cleaned = 2
  /\ Len(clients) = 1

\* C20: a 'close' or 'error' event for a socket that is not in the registry
\* (removed by an earlier event or by the health check) leaves the registry and
\* totalClientDisconnections as they were, and removeClient does not throw.
C20_RemoveClientIsIdempotent ==
  [][(op'.name \in {"socketClose", "socketError"} /\ ~HasClient(clients, op'.ws)) =>
       /\ clients' = clients
       /\ totalClientDisconnections' = totalClientDisconnections
       /\ ~crashed']_vars

\* C20 witness: the 'close' event of a socket whose 'error' event has removed
\* and counted the viewer, with another viewer registered
C20_Witness ==
  /\ op.name = "socketClose"
  /\ ~op.found
  /\ totalClientDisconnections = 1
  /\ clients # <<>>

\* the last handler was the tail's stdout handler and the read held lines
IngestedLive == op.name = "tailData" /\ op.lines > 0

\* this.bufferTimeout holds a handle exactly when a flush timer is scheduled
MarkerIsTheTimer == bufferTimeout <=> timerPending

\* C21: when the tail's stdout handler has ingested lines, either the buffer
\* had reached BUFFER_SIZE and was flushed (it is empty and neither a timer nor
\* its handle is left), or it holds between one and BUFFER_SIZE - 1 lines and
\* a flush timer is scheduled; and as the handle is set exactly when a timer
\* is scheduled, the handler, which arms one only without a handle, never
\* schedules a second.
C21_IngestionFlushesOrArmsOneTimer ==
  /\ MarkerIsTheTimer
  /\ IngestedLive =>
       IF op.buffer # <<>>
       THEN /\ Len(op.buffer) >= BUFFER_SIZE
            /\ messageBuffer = <<>>
            /\ ~bufferTimeout
            /\ ~timerPending
       ELSE /\ Len(messageBuffer) \in 1..(BUFFER_SIZE - 1)
            /\ bufferTimeout
            /\ timerPending

\* C21 witness: a read of one line fills a buffer that was waiting for its
\* timer, and the flush takes the timer away
C21_Witness ==
  /\ IngestedLive
  /\ op.lines = 1
  /\ op.buffer # <<>>
  /\ ~timerPending

\* C22: while a flush timer is scheduled, a read of the tail neither arms a
\* timer nor takes the scheduled one away without flushing: after it the
\* timer is still scheduled, or the buffer with the new lines was flushed
\* whole; and the timer, when it fires, flushes every line of the buffer.
C22_ArrivalsDoNotPostponeTheFlush ==
  /\ [][(timerPending /\ op'.name = "tailData") =>
          /\ ~op'.armed
          /\ \/ timerPending' /\ op'.buffer = <<>>
             \/ /\ op'.buffer = messageBuffer \o SubSeq(storedLogs', Len(storedLogs') - op'.lines + 1,
                                                        Len(storedLogs'))
                /\ messageBuffer' = <<>>]_vars
  /\ [][op'.name = "flush" => (op'.buffer = messageBuffer /\ messageBuffer' = <<>>)]_vars

\* C22 witness: a read adds a line to a buffer that is waiting for its timer
\* and stays below BUFFER_SIZE
C22_Witness ==
  /\ IngestedLive
  /\ op.buffer = <<>>
  /\ ~op.armed
  /\ timerPending
  /\ Len(messageBuffer) = 2

\* broadcastBufferedMessages has run, on a buffer with lines or without
FlushRan == op.name = "flush" \/ Flushed

\* the elements of a sequence
Range(s) == {s[k] : k \in 1..Len(s)}

\* C23: after every flush, with any number of viewers and whichever sends
\* threw or were left out for a socket that is not OPEN, messageBuffer is
\* empty and neither the timer handle nor a timer is left; and a flush sends
\* only lines that were pending or arrived with it, so that, the pending lines
\* being dropped by each flush, no line goes into a second flush.
C23_FlushLeavesNothingBehind ==
  /\ [](FlushRan => (messageBuffer = <<>> /\ pendingIds = <<>> /\ ~bufferTimeout
                      /\ ~timerPending /\ ~crashed))
  /\ [][\A j \in 1..Len(sent') :
          sent'[j].kind = "flush" =>
            Range(sent'[j].ids) \subseteq
              Range(pendingIds) \cup ((Len(arrived) + 1)..Len(arrived'))]_vars

\* C23 witness: a flush in which a send threw while another registered viewer's
\* socket was closing
C23_Witness ==
  /\ Flushed
  /\ \E j \in 1..Len(sent) : ~sent[j].ok
  /\ \E k \in 1..Len(clients) : readyState[clients[k].ws] = "CLOSING"
  /\ messageBuffer = <<>>

\* the last handler was a connection, a 'close', an 'error' or the health check
ViewerChurn == op.name \in {"addClient", "socketClose", "socketError", "healthCheck"}

\* C24: a connection, a 'close' or 'error' event of a socket and the health
\* check leave this.tail and isStarted as they are and neither spawn nor kill
\* a process, also when they leave the registry empty.
C24_ViewersDoNotTouchTheTail ==
  [][ViewerChurn' =>
       /\ tail' = tail
       /\ isStarted' = isStarted
       /\ procs' = procs
       /\ initialReads' = initialReads]_vars

\* C24 witness: the last viewer has disconnected and the tail is running
C24_Witness ==
  /\ op.name = "socketClose"
  /\ op.found
  /\ clients = <<>>
  /\ isStarted
  /\ tail \in LiveTails

\* C25 (as claimed): a handled setTextSearch message leaves the viewer with the
\* trimmed value as its text search, the empty string when the value is not a
\* string; and when that clears a text search that was not empty, the viewer is
\* sent one history replay, made with the empty text search.
C25_ValueIsTrimmedOrClearedAndReplayed ==
  (op.name = "setTextSearch" /\ op.found) =>
    LET value == op.message.value
        expected == IF value.str THEN Trim(value.s) ELSE <<>>
    IN  /\ GetClient(clients, op.ws).textSearch = expected
        /\ (op.changed /\ expected = <<>> /\ readyState[op.ws] = "OPEN") =>
              /\ Len(sent) = 1
              /\ sent[1].ws = op.ws
              /\ sent[1].kind = "history"
              /\ sent[1].lines = ReplayOf(<<>>)

\* C26 (as claimed): a setTextSearch message whose text differs from the
\* viewer's text search at most in letter case sends the viewer nothing.
C26_CaseOnlyChangeSendsNothing ==
  [][(/\ op'.name = "setTextSearch"
      /\ op'.found
      /\ ToLowerCase(op'.textSearch) = ToLowerCase(GetClient(clients, op'.ws).textSearch))
       => sent' = <<>>]_vars

\* C27: with startTailProcess called once, at listen, a tail process exists
\* and isStarted is true only when the backfill read has closed; every line
\* the backfill read gave arrived before every line of the live tail, and
\* storedLogs holds the last lines that arrived, in that order.
C27_BackfillPrecedesLive ==
  /\ (procs # <<>> \/ isStarted \/ tail # NULL) => initialReads = 0
  /\ \A i, j \in 1..Len(arrived) : (i < j /\ arrived[i].live) => arrived[j].live
  /\ storedLogs = SliceLast(ArrivedLines, MAX_STORED_LOGS)

\* C27 witness: storedLogs holds a line of the backfill and, after it, a line
\* of the live tail
C27_Witness ==
  /\ Len(arrived) \in 2..MAX_STORED_LOGS
  /\ ~arrived[1].live
  /\ arrived[Len(arrived)].live

\* the last handler was a stdout handler, of the backfill read or of the tail
ReadHandled == op.name \in {"initialReadData", "tailData"}

\* C28: a read whose content is empty after trim changes neither storedLogs
\* nor messageBuffer, arms no timer and sends nothing; every other read
\* appends at least one line; and no line of storedLogs or of messageBuffer is
\* empty or blank.
C28_BlankReadsAreDropped ==
  /\ [][ReadHandled' =>
          IF Trim(op'.data) = <<>>
          THEN /\ storedLogs' = storedLogs
               /\ messageBuffer' = messageBuffer
               /\ bufferTimeout' = bufferTimeout
               /\ timerPending' = timerPending
               /\ arrived' = arrived
               /\ sent' = <<>>
          ELSE Len(arrived') > Len(arrived)]_vars
  /\ [](\A k \in 1..Len(storedLogs) : Trim(storedLogs[k]) # <<>>)
  /\ [](\A k \in 1..Len(messageBuffer) : Trim(messageBuffer[k]) # <<>>)

\* C28 witness: the tail has delivered a read of white space only while a line
\* was pending, and a read with a blank line between two lines had been stored
C28_Witness ==
  /\ op.name = "tailData"
  /\ Trim(op.data) = <<>>
  /\ messageBuffer # <<>>
  /\ \E k \in 1..Len(arrived) : arrived[k].raw = LineB

\* C29: a ws.send of the empty string is a history replay without lines; a
\* flush sends no empty payload, and sends nothing at all to a viewer whose
\* text search matches no line of the buffer.
C29_EmptyPayloadOnlyFromReplay ==
  /\ \A j \in 1..Len(sent) :
       /\ sent[j].data = <<>> => (sent[j].kind = "history" /\ sent[j].lines = <<>>)
       /\ sent[j].kind = "flush" => (sent[j].lines # <<>> /\ sent[j].data # <<>>)
  /\ Flushed =>
       \A k \in 1..Len(clients) :
         Matching(op.buffer, clients[k].textSearch) = <<>> =>
           \A j \in 1..Len(sent) : sent[j].ws # clients[k].ws

\* C29 witness: a flush with a viewer registered, its socket open, whose text
\* search matches no line of the buffer
C29_Witness ==
  /\ Flushed
  /\ \E k \in 1..Len(clients) :
       /\ readyState[clients[k].ws] = "OPEN"
       /\ Matching(op.buffer, clients[k].textSearch) = <<>>
  /\ sent = <<>>

\* C30: when the ws.send of a history replay throws, on a connection or on a
\* change of text search, the handler does not throw, the viewer is registered
\* with the text search the handler gave it, its messagesSent is not
\* increased, and storedLogs, messageBuffer and every other viewer are as
\* before.
C30_ReplaySurvivesAThrowingSend ==
  [][(/\ op'.name \in {"addClient", "setTextSearch"}
      /\ \E j \in 1..Len(sent') : ~sent'[j].ok) =>
       /\ ~crashed'
       /\ HasClient(clients', op'.ws)
       /\ GetClient(clients', op'.ws).textSearch =
            (IF op'.name = "addClient" THEN <<>> ELSE op'.textSearch)
       /\ \A j \in 1..Len(sent') : ~sent'[j].ok => sent'[j].messagesSent = 0
       /\ storedLogs' = storedLogs
       /\ messageBuffer' = messageBuffer
       /\ \A k \in 1..Len(clients) :
            clients[k].ws # op'.ws => (k <= Len(clients') /\ clients'[k] = clients[k])]_vars

\* C30 witness: the replay after a change of text search throws, with lines in
\* it and another viewer registered
C30_Witness ==
  /\ op.name = "setTextSearch"
  /\ op.changed
  /\ Len(sent) = 1
  /\ ~sent[1].ok
  /\ sent[1].lines # <<>>
  /\ Len(clients) = 2

C32_TimerIffLinesPending ==
  /\ bufferTimeout <=> messageBuffer # <<>>
  /\ timerPending <=> messageBuffer # <<>>

\* C32 witness: the tail has exited and stopTailProcess was called after it,
\* with a line pending and its timer scheduled
C32_Witness ==
  /\ op.name = "stopTailProcess"
  /\ messageBuffer # <<>>
  /\ timerPending
  /\ ~isStarted

\* C33: without a stop, a flush whose send to the viewer does not throw gives
\* the viewer, registered and with its socket OPEN, in one payload, exactly the
\* lines of the buffer that match its text search, none of which a flush had
\* given it before; and lines that are pending are eventually flushed.
C33_LiveLinesReachTheViewerOnce ==
  /\ [][(/\ Flushed'
          /\ HasClient(clients, Watched)
          /\ readyState[Watched] = "OPEN"
          /\ \A j \in 1..Len(sent') : sent'[j].ws = Watched => sent'[j].ok) =>
           LET ids == Range(pendingIds) \cup ((Len(arrived) + 1)..Len(arrived'))
               search == GetClient(clients, Watched).textSearch
               due == {i \in ids : Matches(arrived'[i].line, search)}
           IN  /\ IdsTo(sent', Watched, "flush") = due
               /\ due \cap delivered.flush = {}
               /\ Cardinality({j \in 1..Len(sent') : sent'[j].ws = Watched})
                    = (IF due = {} THEN 0 ELSE 1)]_vars
  /\ (pendingIds # <<>>) ~> (pendingIds = <<>>)

\* C33 witness: the timer has flushed to the viewer a line the tail gave while
\* the viewer was registered
C33_Witness ==
  /\ op.name = "flush"
  /\ WatchedIds("flush") # {}
  /\ \A i \in WatchedIds("flush") : arrived[i].live

\* the events the handlers registered on the tail process handle
TailEvents == {"tailData", "tailStderr", "tailClose", "tailError"}

\* C34: a handler registered on the tail process (stdout data, stderr data,
\* close, error) never raises, whatever the state it runs in: after any of
\* them has run the process has not died of an uncaught exception
C34_TailHandlersDoNotRaise ==
  op.name \in TailEvents => ~crashed

\* stopTailProcess has run to its end: it killed the tail and cleared the handle
Stopped == procs # <<>> /\ tail = NULL

\* C35: once stopTailProcess has completed, no event changes storedLogs or
\* messageBuffer, schedules a flush timer or sends a flush payload, also not a
\* stdout data event of the killed tail that is delivered after the kill
C35_NothingHappensAfterStop ==
  [][Stopped =>
       /\ storedLogs' = storedLogs
       /\ messageBuffer' = messageBuffer
       /\ timerPending' => timerPending
       /\ \A j \in 1..Len(sent') : sent'[j].kind # "flush"]_vars

\* the lines the backfill read and the tail process write, each ended by "\n"
WrittenLines == {LineA, LineB}

\* C36: every line the handlers take from a read, store in storedLogs and
\* hand to a viewer is one complete line the process wrote, redacted as a
\* whole, also when the line arrived cut across two consecutive reads
C36_StoredLinesAreWholeLines ==
  /\ \A i \in 1..Len(arrived) : arrived[i].raw \in WrittenLines
  /\ \A k \in 1..Len(storedLogs) :
       \E line \in WrittenLines : storedLogs[k] = obfuscateIPAddresses(line)
  /\ \A j \in 1..Len(sent) : \A k \in 1..Len(sent[j].lines) :
       \E line \in WrittenLines : sent[j].lines[k] = obfuscateIPAddresses(line)

\* C37: the lines of the backfill read are put in storedLogs only: the handler
\* leaves messageBuffer and the timer alone and sends nothing, no line pending
\* in messageBuffer and no line of a flush payload is a backfill line, so a
\* viewer connected during the backfill gets the lines loaded after its replay
\* in no flush
C37_BackfillGoesToHistoryOnly ==
  /\ [](\A k \in 1..Len(pendingIds) : arrived[pendingIds[k]].live)
  /\ [](\A j \in 1..Len(sent) :
          sent[j].kind = "flush" =>
            \A i \in 1..Len(sent[j].ids) : arrived[sent[j].ids[i]].live)
  /\ [][op'.name = "initialReadData" =>
          /\ messageBuffer' = messageBuffer
          /\ timerPending' = timerPending
          /\ sent' = <<>>]_vars

\* C37 witness: the viewer was replayed a backfill line, a later backfill line
\* that passes its filter was loaded after that replay, and a flush has given
\* it a live line, the later backfill line still not delivered to it
C37_Witness ==
  /\ op.name = "flush"
  /\ WatchedIds("flush") # {}
  /\ \E h \in delivered.history, i \in 1..Len(arrived) :
       /\ ~arrived[h].live
       /\ ~arrived[i].live
       /\ h < i
       /\ arrived[i].raw = LineA
       /\ i \notin delivered.history \cup delivered.flush

\* viewer ws connected and is no longer in the registry
Removed(ws) == readyState[ws] # "NONE" /\ ~HasClient(clients, ws)

\* C38: once a viewer has been removed from the registry, by removeClient on
\* its 'close' or 'error' event or by the sweep, no operation sends a payload
\* on its socket, and a setTextSearch message that still arrives from it finds
\* no client (updateClientTextSearch returns false), sends no replay and
\* changes nothing of the broadcaster
C38_RemovedViewerIsLeftAlone ==
  /\ [](\A ws \in WS : Removed(ws) => \A j \in 1..Len(sent) : sent[j].ws # ws)
  /\ [][\A ws \in WS :
          (Removed(ws) /\ op'.name = "setTextSearch" /\ op'.ws = ws) =>
             /\ ~op'.found
             /\ sent' = <<>>
             /\ UNCHANGED <<clients, readyState, storedLogs, messageBuffer,
                            bufferTimeout, timerPending, totalClientDisconnections,
                            delivered>>]_vars

\* C38 witness: a setTextSearch message of a viewer that was removed while its
\* socket was closing has been handled, with lines stored and another viewer
\* still registered
C38_Witness ==
  /\ op.name = "setTextSearch"
  /\ Removed(op.ws)
  /\ readyState[op.ws] = "CLOSING"
  /\ storedLogs # <<>>
  /\ clients # <<>>

\* the operations that send lines: connect, filter change, ingestion, flush
SendingOps == {"addClient", "setTextSearch", "tailData", "flush"}

RECURSIVE SumMessagesSent(_)
\* the sum of what the sends added to the messagesSent of their viewers
SumMessagesSent(sends) ==
  IF sends = <<>> THEN 0
  ELSE Head(sends).messagesSent + SumMessagesSent(Tail(sends))

\* C40: what an operation adds to stats.totalMessagesSent is the number of
\* lines it sent to viewers, the sum of what it added to the messagesSent of
\* each viewer; the counter is reset to 0 at the start of a stats period, so
\* within a period it equals the sum of the per-viewer increments
C40_GlobalCounterIsSumOfViewerCounters ==
  op.name \in SendingOps => op.totalMessagesSent = SumMessagesSent(sent)

\* lines wait to be processed and neither pause is in effect
PageDue == pendingMessages # <<>> /\ ~userHasScrolledUp /\ ~manuallyPaused

\* C39: between the events of the page, whenever pendingMessages is not empty
\* and neither userHasScrolledUp nor manuallyPaused holds, renderTimeout is
\* set and a processPendingMessages call is scheduled; and from such a state
\* the pending lines are moved into allLogs, unless the user pauses again
C39_NoWakeupIsLost ==
  /\ [](PageDue => renderTimeout /\ renderTimers > 0)
  /\ PageDue ~> (pendingMessages = <<>> \/ userHasScrolledUp \/ manuallyPaused)

\* C39 witness: lines arrived while the page was paused and the timer ran out
\* without processing them; the resume click has scheduled the call again
C39_Witness ==
  /\ op.name = "pauseClick"
  /\ PageDue
  /\ Len(pendingMessages) > ADAPTIVE_THRESHOLD
  /\ renderTimeout
  /\ renderTimers = 1

=============================================================================
